---- MODULE Spec2Model ----
(***************************************************************************)
(* Session/transport layer of aizoomdoc_client: ConfigManager (config.py), *)
(* HTTPClient (http_client.py), AIZoomDocClient.send_message (client.py)   *)
(* and StreamWorker (gui.py).                                              *)
(*                                                                         *)
(* Python's None is the empty sequence <<>>, Some(x) is <<x>>; a missing   *)
(* or empty string is "".  Time is an integer number of seconds.           *)
(***************************************************************************)
EXTENDS Integers, Sequences, FiniteSets, TLC

(* ------------------------------ bounds -------------------------------- *)

\* the clock runs from 0 to MaxTime
MaxTime == 2
\* access tokens the server issues in one behaviour
MaxIssued == 2
\* frames the server delivers on one stream
MaxFrames == 3

(* ----------------------------- constants ------------------------------ *)

DEFAULT_SERVER_URL == "https://osa.fvds.ru"

None == <<>>
Some(x) == <<x>>

\* static tokens a caller may pass; "" is "no token" (falsy in Python)
StaticTokens == {"st-alice", "st-bob"}

\* the identity the server embeds in the exchange response for a credential
UserOf(tok) == IF tok = "st-alice" THEN "alice" ELSE "bob"

\* lifetimes (seconds) the server may declare in expires_in (any int passes
\* TokenExchangeResponse)
ExpiresIn == {-1, 0, 2}

\* response statuses the server may answer with; 0 stands for a transport
\* failure (no response: refused connection, reset, timeout)
TransportFailure == 0
Statuses == {200, 302, 400, 401, 404, 422, 500}
Replies == Statuses \cup {TransportFailure}

\* 202 Accepted, the answer of DELETE /chats/{id} when the deletion is scheduled
StatusAccepted == 202

\* what the server may answer to a request of a method
RepliesTo(method) == IF method = "DELETE" THEN Replies \cup {StatusAccepted} ELSE Replies

Methods == {"GET", "POST", "PATCH", "DELETE"}

VARIABLES
    now,           \* datetime.utcnow()
    config,        \* ConfigManager._config (the loaded session record)
    config_file,   \* content of ~/.aizoomdoc/config.json: None (no file) or Some(json)
    loaded,        \* ConfigManager._config is not None (the file has been read)
    credentials_file, \* content of <data_dir>/credentials.json, for each data directory:
                   \* None (no file) or Some(json)
    error,         \* the exception a direct call of _handle_response_error raised, with
                   \* its attributes: None or Some(exception)
    net,           \* where the client's requests go: the base_url of HTTPClient._client
                   \* (None until its first use), for the access tokens obtained by
                   \* the address operations the address whose exchange issued each,
                   \* and the bearer-carrying sends of the last call as <<address, token>>
    suspended,     \* the stream_sse generator that is not the one running now (a second
                   \* stream of the same client): its position, frames, events and log
    static_token,  \* HTTPClient._static_token
    issued,        \* number of access tokens the server has issued
    pc,            \* position of the running HTTPClient call
    call,          \* the running call: operation, method, require_auth
    wire,          \* network calls made by the running call, in order
    result,        \* how the call ended: "pending", "ok" or the exception class
    pre,           \* session and credential at the start of the call
    spc,           \* stream_sse generator: idle, running, yielded, finished
    frames,        \* frames read from the open stream, in arrival order
    pending,       \* number of frames the transport still holds or will receive
    yielded,       \* StreamEvents yielded by the generator, in order
    send,          \* how the generator ended
    conn,          \* the streaming connection: "none", "open", "closed"
    wpc,           \* StreamWorker.run: none, created, uploads, submit, events, after_loop, done
    stop_requested,  \* StreamWorker._stop_requested
    received_tokens, \* StreamWorker._received_tokens
    nfiles,        \* len(StreamWorker.local_files); the paths are 1..nfiles
    fidx,          \* the next local file of the upload loop
    google_files,  \* descriptors of the files uploaded so far, in order
    signals,       \* the Qt signals the worker has emitted, in order
    wlog,          \* the client calls the worker has made, in order
    cancelled_at   \* len(signals) when the event loop saw the stop flag set, else -1

httpVars == <<pc, call, wire, result, pre>>
sessVars == <<now, config, config_file, static_token, issued>>
streamVars == <<spc, frames, pending, yielded, send, conn>>
workerVars == <<wpc, stop_requested, received_tokens, nfiles, fidx, google_files, signals,
                wlog, cancelled_at>>
otherVars == <<credentials_file, error, suspended, net>>
vars == <<now, config, config_file, loaded, credentials_file, error, suspended, net, static_token,
          issued, pc, call, wire, result, pre,
          spc, frames, pending, yielded, send, conn,
          wpc, stop_requested, received_tokens, nfiles, fidx, google_files, signals,
          wlog, cancelled_at>>

(* ------------------------- config.py: the store ------------------------ *)

\* models.TokenData
TokenData(access_token, expires_at, user_id, username) ==
    [access_token |-> access_token, expires_at |-> expires_at,
     user_id |-> user_id, username |-> username]

\* ConfigManager.load, no file: the default record
DefaultConfig ==
    [server_url |-> DEFAULT_SERVER_URL, token_data |-> None,
     active_chat_id |-> None, data_dir |-> None]

\* datetime.isoformat(): the text of a time
IsoFormat(t) == <<"iso", t>>

\* datetime.fromisoformat(text): the time a text written by isoformat() stands
\* for
FromIsoFormat(text) == text[2]

\* str(uuid)
UuidStr(u) == <<"uuid", u>>

\* UUID(text) for a text written by str(uuid)
UuidParse(text) == text[2]

\* ConfigManager.save: the JSON document written for a record
ToJson(cfg) ==
    [server_url |-> cfg.server_url,
     token_data |-> IF cfg.token_data = None THEN None
                    ELSE Some([access_token |-> cfg.token_data[1].access_token,
                               expires_at |-> IsoFormat(cfg.token_data[1].expires_at),
                               user_id |-> cfg.token_data[1].user_id,
                               username |-> cfg.token_data[1].username]),
     active_chat_id |-> IF cfg.active_chat_id = None THEN None
                        ELSE Some(UuidStr(cfg.active_chat_id[1])),
     data_dir |-> cfg.data_dir]

FromJson_DropExpiry(doc) ==
    [server_url |-> doc.server_url,
     token_data |-> IF doc.token_data = None THEN None
                    ELSE Some(TokenData(doc.token_data[1].access_token, 0,
                                        doc.token_data[1].user_id, doc.token_data[1].username)),
     active_chat_id |-> IF doc.active_chat_id = None THEN None
                        ELSE Some(UuidParse(doc.active_chat_id[1])),
     data_dir |-> doc.data_dir]

\* ConfigManager.load, the try body for a well-formed document: expires_at
\* and active_chat_id are parsed, then ClientConfig(**data)
FromJson(doc) ==
    [server_url |-> doc.server_url,
     token_data |-> IF doc.token_data = None THEN None
                    ELSE Some(TokenData(doc.token_data[1].access_token,
                                        FromIsoFormat(doc.token_data[1].expires_at),
                                        doc.token_data[1].user_id, doc.token_data[1].username)),
     active_chat_id |-> IF doc.active_chat_id = None THEN None
                        ELSE Some(UuidParse(doc.active_chat_id[1])),
     data_dir |-> doc.data_dir]

\* ConfigManager.save: the file after the write
FileAfterSave(cfg) == Some(ToJson(cfg))

\* ConfigManager.get_token
GetToken(cfg) == cfg.token_data

IsTokenValid_Buffered(cfg, t) ==
    /\ GetToken(cfg) # None
    /\ GetToken(cfg)[1].expires_at - 1 > t

IsTokenValid_Inclusive(cfg, t) ==
    /\ GetToken(cfg) # None
    /\ GetToken(cfg)[1].expires_at >= t

\* ConfigManager.is_token_valid
IsTokenValid(cfg, t) ==
    /\ GetToken(cfg) # None
    /\ GetToken(cfg)[1].expires_at > t

\* variant: an existing bearer record keeps its user, only the token and its
\* expiry are replaced
SetToken_KeepUser(cfg, access_token, expires_at, user_id, username) ==
    IF cfg.token_data = None
    THEN [cfg EXCEPT !.token_data = Some(TokenData(access_token, expires_at, user_id, username))]
    ELSE [cfg EXCEPT !.token_data =
             Some(TokenData(access_token, expires_at, cfg.token_data[1].user_id,
                            cfg.token_data[1].username))]

\* ConfigManager.set_token: the record is mutated in place, then saved
SetToken(cfg, access_token, expires_at, user_id, username) ==
    [cfg EXCEPT !.token_data = Some(TokenData(access_token, expires_at, user_id, username))]

(* --------------------- http_client.py: HTTPClient ---------------------- *)

\* httpx.Response.is_success
IsSuccess(status) == status >= 200 /\ status < 300

\* HTTPClient._handle_response_error: the exception class raised, "ok" if none
HandleResponseError(status) ==
    CASE IsSuccess(status) -> "ok"
      [] status = 401 -> "AuthenticationError"
      [] status = 404 -> "NotFoundError"
      [] status \in {400, 422} -> "ValidationError"
      [] status >= 500 -> "ServerError"
      [] OTHER -> "APIError"

\* what a network call raises or returns: httpx raises on a transport failure
Outcome(status) ==
    IF status = TransportFailure THEN "TransportError" ELSE HandleResponseError(status)

\* HTTPClient._get_auth_headers: the bearer token carried, None if no header
GetAuthHeaders(cfg) ==
    IF GetToken(cfg) = None THEN None ELSE Some(GetToken(cfg)[1].access_token)

\* one entry of the network log
\* (expires_in is the lifetime declared in the body of a success reply)
Exchange(tok, status, expires_in) ==
    [kind |-> "exchange", method |-> "POST", auth |-> None, cred |-> tok, status |-> status,
     expires_in |-> expires_in]
Request(method, auth, status) ==
    [kind |-> "request", method |-> method, auth |-> auth, cred |-> "", status |-> status,
     expires_in |-> 0]

NoCall == [op |-> "none", method |-> "", require_auth |-> FALSE, path_exists |-> TRUE]
Snapshot == [config |-> config, config_file |-> config_file, static_token |-> static_token]

\* no HTTP client built yet, no token issued, nothing sent
NoNet == [base_url |-> None, issuer |-> <<>>, sent |-> {}]

\* the data directories: None is the default <config_dir>/data
DataDirs == {None, Some("/data")}

\* no data directory holds a credentials.json
NoCredentials == [d \in DataDirs |-> None]

\* a stream_sse generator that has not started
IdleStream ==
    [spc |-> "idle", frames |-> <<>>, pending |-> 0, yielded |-> <<>>, send |-> "none",
     conn |-> "none", wire |-> <<>>]

Running == pc \notin {"idle", "done"}

\* no StreamWorker exists
NoWorker ==
    /\ wpc = "none"
    /\ stop_requested = FALSE
    /\ received_tokens = FALSE
    /\ nfiles = 0
    /\ fidx = 1
    /\ google_files = <<>>
    /\ signals = <<>>
    /\ wlog = <<>>
    /\ cancelled_at = -1

\* the call's network log never grows past this many entries
MaxWire == 6

\* HTTPClient.authenticate: token = static_token or self._static_token
AuthToken(tokArg) == IF tokArg # "" THEN tokArg ELSE static_token

\* HTTPClient.authenticate: how the call ends for a reply to the exchange
AuthOutcome(token, status) ==
    IF token = "" THEN "AuthenticationError" ELSE Outcome(status)

\* HTTPClient.authenticate: self._static_token = token, set before the POST
CredentialAfter(token) == IF token = "" THEN static_token ELSE token

\* HTTPClient.authenticate: the network log w after the call (no POST is
\* made without a token)
Logged(w, tokArg, status, ei) ==
    IF AuthToken(tokArg) = "" THEN w ELSE Append(w, Exchange(AuthToken(tokArg), status, ei))

ExpiresAt_Clamped(t, ei) == t + (IF ei < 0 THEN 0 ELSE ei)

\* HTTPClient.authenticate: datetime.utcnow() + timedelta(seconds=result.expires_in)
ExpiresAt(t, ei) == t + ei

\* HTTPClient.authenticate: the credential is cached, POST /auth/exchange is
\* sent, and on a success reply the bearer record is replaced and the session
\* saved
AuthEffect(tokArg, status, ei) ==
    LET token == AuthToken(tokArg) IN
    /\ static_token' = CredentialAfter(token)
    /\ IF token # "" /\ Outcome(status) = "ok"
       THEN /\ config' = SetToken(config, issued + 1, ExpiresAt(now, ei), UserOf(token), UserOf(token))
            /\ config_file' = FileAfterSave(config')
            /\ issued' = issued + 1
       ELSE UNCHANGED <<config, config_file, issued>>

\* replies the server can give to an exchange in this state: a failure, or a
\* success declaring a lifetime
ExchangeReplies ==
    [status : Replies \ {200}, expires_in : {0}]
        \cup (IF issued < MaxIssued THEN [status : {200}, expires_in : ExpiresIn] ELSE {})

\* the public call HTTPClient.authenticate(static_token)
Authenticate(tokArg) ==
    /\ ~Running
    /\ \E r \in ExchangeReplies :
          /\ AuthEffect(tokArg, r.status, r.expires_in)
          /\ wire' = Logged(<<>>, tokArg, r.status, r.expires_in)
          /\ result' = AuthOutcome(AuthToken(tokArg), r.status)
    /\ call' = [op |-> "authenticate", method |-> "POST", require_auth |-> FALSE,
                path_exists |-> TRUE]
    /\ pre' = Snapshot
    /\ pc' = "done"
    /\ UNCHANGED <<loaded, otherVars, now, streamVars, workerVars>>

\* HTTPClient.request, entry: if require_auth: self._ensure_authenticated()
RequestBegin(method, require_auth) ==
    /\ ~Running
    /\ call' = [op |-> "request", method |-> method, require_auth |-> require_auth,
                path_exists |-> TRUE]
    /\ wire' = <<>>
    /\ result' = "pending"
    /\ pre' = Snapshot
    /\ pc' = IF require_auth THEN "ensure" ELSE "send"
    /\ UNCHANGED <<loaded, otherVars, sessVars, streamVars, workerVars>>

EnsureBranch_NoRaise ==
    IF IsTokenValid(config, now) THEN "valid"
    ELSE IF static_token # "" THEN "exchange"
    ELSE "valid"

\* HTTPClient._ensure_authenticated: what it does in the current state
EnsureBranch ==
    IF IsTokenValid(config, now) THEN "valid"
    ELSE IF static_token # "" THEN "exchange"
    ELSE "expired"

\* the statement that follows a call site of _ensure_authenticated or of
\* authenticate: request() line 234, upload_file() line 354, request() line 252
Continue(at) ==
    CASE at = "ensure" -> "send"
      [] at = "upload_ensure" -> "upload_open"
      [] OTHER -> "resend"

AfterAuth_Retry(at, outcome) == IF outcome = "ok" THEN Continue(at) ELSE at

\* where control goes after authenticate() called at `at`: on, or out of the
\* call with the exception
AfterAuth(at, outcome) == IF outcome = "ok" THEN Continue(at) ELSE "done"

\* HTTPClient._ensure_authenticated, called by request() and by upload_file()
EnsureAuthenticated ==
    /\ pc \in {"ensure", "upload_ensure"}
    /\ CASE EnsureBranch = "valid" ->
              /\ pc' = Continue(pc)
              /\ UNCHANGED <<sessVars, wire, result>>
         [] EnsureBranch = "exchange" ->
              /\ Len(wire) < MaxWire
              /\ \E r \in ExchangeReplies :
                    /\ AuthEffect(static_token, r.status, r.expires_in)
                    /\ wire' = Logged(wire, static_token, r.status, r.expires_in)
                    /\ pc' = AfterAuth(pc, AuthOutcome(static_token, r.status))
                    /\ result' = IF pc' = "done" THEN AuthOutcome(static_token, r.status)
                                  ELSE result
              /\ now' = now
         [] OTHER ->
              /\ pc' = "done"
              /\ result' = "TokenExpiredError"
              /\ UNCHANGED <<sessVars, wire>>
    /\ UNCHANGED <<loaded, otherVars, call, pre, streamVars, workerVars>>

NeedsReauth_Any401(status, require_auth, st) == status = 401

\* HTTPClient.request: the condition of the 401 branch
NeedsReauth(status, require_auth, st) == status = 401 /\ require_auth /\ st # ""

AfterSend_Loop(at, status, require_auth, st) ==
    IF NeedsReauth(status, require_auth, st) THEN "reauth" ELSE "done"

\* HTTPClient.request: where control goes after a reply to the send at `at`
\* ("send" is the first client.request, "resend" the one inside the 401 branch)
AfterSend(at, status, require_auth, st) ==
    IF at = "send" /\ NeedsReauth(status, require_auth, st) THEN "reauth" ELSE "done"

SendHeaders_Stale(at, require_auth, cfg, w) ==
    IF at = "resend" THEN w[Len(w) - 1].auth
    ELSE IF require_auth THEN GetAuthHeaders(cfg) ELSE None

\* HTTPClient.request: the headers of a send. First send:
\* self._get_auth_headers() if require_auth else {}; re-send:
\* self._get_auth_headers(), read again after authenticate()
SendHeaders(at, require_auth, cfg, w) ==
    IF at = "resend" THEN GetAuthHeaders(cfg)
    ELSE IF require_auth THEN GetAuthHeaders(cfg) ELSE None

\* HTTPClient.request: client.request(...), first send or the re-send
Send ==
    /\ pc \in {"send", "resend"}
    /\ Len(wire) < MaxWire
    /\ \E status \in RepliesTo(call.method) :
          LET headers == SendHeaders(pc, call.require_auth, config, wire) IN
          /\ wire' = Append(wire, Request(call.method, headers, status))
          /\ IF status = TransportFailure
             THEN pc' = "done" /\ result' = "TransportError"
             ELSE /\ pc' = AfterSend(pc, status, call.require_auth, static_token)
                  /\ result' = IF pc' = "done" THEN HandleResponseError(status) ELSE result
    /\ UNCHANGED <<loaded, otherVars, sessVars, call, pre, streamVars, workerVars>>

\* HTTPClient.request, the 401 branch: self.authenticate(self._static_token)
Reauth ==
    /\ pc = "reauth"
    /\ Len(wire) < MaxWire
    /\ \E r \in ExchangeReplies :
          /\ AuthEffect(static_token, r.status, r.expires_in)
          /\ wire' = Logged(wire, static_token, r.status, r.expires_in)
          /\ pc' = AfterAuth(pc, AuthOutcome(static_token, r.status))
          /\ result' = IF pc' = "done" THEN AuthOutcome(static_token, r.status) ELSE result
    /\ UNCHANGED <<loaded, otherVars, now, call, pre, streamVars, workerVars>>

\* HTTPClient.upload_file(path, file_path), entry: self._ensure_authenticated();
\* the local file exists or not
UploadBegin(exists) ==
    /\ ~Running
    /\ call' = [op |-> "upload_file", method |-> "POST", require_auth |-> TRUE,
                path_exists |-> exists]
    /\ wire' = <<>>
    /\ result' = "pending"
    /\ pre' = Snapshot
    /\ pc' = "upload_ensure"
    /\ UNCHANGED <<loaded, otherVars, sessVars, streamVars, workerVars>>

\* AIZoomDocClient.upload_file / upload_file_for_llm: path.exists()
PathChecked(exists) == exists

\* AIZoomDocClient.upload_file and upload_file_for_llm: a missing path raises
\* AIZoomDocError("File not found: ..."), else HTTPClient.upload_file is called
ClientUploadFile(exists) ==
    /\ ~Running
    /\ call' = [op |-> "client_upload_file", method |-> "POST", require_auth |-> TRUE,
                path_exists |-> exists]
    /\ wire' = <<>>
    /\ pre' = Snapshot
    /\ IF PathChecked(exists)
       THEN pc' = "upload_ensure" /\ result' = "pending"
       ELSE pc' = "done" /\ result' = "AIZoomDocError"
    /\ UNCHANGED <<loaded, otherVars, sessVars, streamVars, workerVars>>

\* HTTPClient.upload_file: open(file_path, "rb"), then self.post(path, files=files)
UploadOpen ==
    /\ pc = "upload_open"
    /\ IF call.path_exists
       THEN pc' = "ensure" /\ result' = result
       ELSE pc' = "done" /\ result' = "FileNotFoundError"
    /\ UNCHANGED <<loaded, otherVars, sessVars, call, wire, pre, streamVars, workerVars>>

\* datetime.utcnow() advances
Tick ==
    /\ now < MaxTime
    /\ now' = now + 1
    /\ UNCHANGED <<loaded, otherVars, config, config_file, static_token, issued, httpVars,
                   streamVars, workerVars>>

\* HTTPClient.__init__ on a fresh ConfigManager with no session file
Init ==
    /\ now = 0
    /\ config = DefaultConfig
    /\ config_file = None
    /\ loaded = TRUE
    /\ credentials_file = NoCredentials
    /\ error = None
    /\ net = NoNet
    /\ suspended = IdleStream
    /\ static_token \in StaticTokens \cup {""}
    /\ issued = 0
    /\ pc = "idle"
    /\ call = NoCall
    /\ wire = <<>>
    /\ result = "pending"
    /\ pre = Snapshot
    /\ spc = "idle"
    /\ frames = <<>>
    /\ pending = 0
    /\ yielded = <<>>
    /\ send = "none"
    /\ conn = "none"
    /\ NoWorker

CallStep == EnsureAuthenticated \/ Send \/ Reauth \/ UploadOpen

Next ==
    \/ \E tokArg \in StaticTokens \cup {""} : Authenticate(tokArg)
    \/ \E method \in Methods, require_auth \in BOOLEAN : RequestBegin(method, require_auth)
    \/ \E exists \in BOOLEAN : UploadBegin(exists)
    \/ \E exists \in BOOLEAN : ClientUploadFile(exists)
    \/ EnsureAuthenticated
    \/ UploadOpen
    \/ Send
    \/ Reauth
    \/ Tick

Spec == Init /\ [][Next]_vars

\* every network call of a started request returns or times out
FairSpec == Spec /\ WF_vars(CallStep)

(* ------------------ http_client.py: HTTPClient.stream_sse -------------- *)

\* payloads (sse.data) a frame may carry
RawHel == "{\"token\": \"Hel\"}"
RawLo == "{\"token\": \"lo\"}"
RawMsg == "{\"message\": \"boom\"}"
RawTrunc == "{\"token\": \"He"
RawNum == "42"
RawEmpty == ""
RawFinal == "{\"content\": \"Hello\"}"

\* json.loads: a dict (as a set of key/value pairs), another JSON value, or
\* JSONDecodeError
JsonLoads(raw) ==
    CASE raw = RawHel -> [type |-> "dict", value |-> {<<"token", "Hel">>}]
      [] raw = RawLo -> [type |-> "dict", value |-> {<<"token", "lo">>}]
      [] raw = RawMsg -> [type |-> "dict", value |-> {<<"message", "boom">>}]
      [] raw = RawFinal -> [type |-> "dict", value |-> {<<"content", "Hello">>}]
      [] raw = RawNum -> [type |-> "int", value |-> {}]
      [] OTHER -> [type |-> "JSONDecodeError", value |-> {}]

\* a frame as httpx_sse delivers it: sse.event ("" when the frame names no
\* event) and sse.data
Frame(event, data) == [event |-> event, data |-> data]

\* the frames a server may deliver
FrameAlphabet ==
    {Frame("llm_token", RawHel), Frame("llm_token", RawLo), Frame("llm_token", RawNum),
     Frame("completed", RawEmpty), Frame("completed", RawTrunc), Frame("error", RawMsg),
     Frame("", RawHel), Frame("future_kind", RawLo), Frame("llm_final", RawFinal)}

\* models.StreamEvent
StreamEvent(event, data, timestamp) ==
    [event |-> event, data |-> data, timestamp |-> timestamp]

\* models.KNOWN_EVENT_TYPES
KNOWN_EVENT_TYPES ==
    {"phase_started", "phase_progress", "llm_token", "llm_thinking", "llm_final", "tool_call",
     "image_ready", "error", "completed", "queue_position", "processing_started", "message"}

DecodeFrame_KnownOnly(sse, t) ==
    LET data == IF sse.data # "" THEN JsonLoads(sse.data) ELSE [type |-> "dict", value |-> {}] IN
    IF data.type = "dict" /\ (sse.event = "" \/ sse.event \in KNOWN_EVENT_TYPES)
    THEN [raised |-> FALSE,
          event |-> StreamEvent(IF sse.event # "" THEN sse.event ELSE "message", data.value, t)]
    ELSE [raised |-> TRUE, event |-> StreamEvent("", {}, t)]

\* stream_sse, the body of the try up to the yield: the event built from a
\* frame, or raised: json.loads fails, data.keys() fails on a non-dict, or
\* StreamEvent rejects data that is no dict
DecodeFrame(sse, t) ==
    LET data == IF sse.data # "" THEN JsonLoads(sse.data) ELSE [type |-> "dict", value |-> {}] IN
    IF data.type = "dict"
    THEN [raised |-> FALSE,
          event |-> StreamEvent(IF sse.event # "" THEN sse.event ELSE "message", data.value, t)]
    ELSE [raised |-> TRUE, event |-> StreamEvent("", {}, t)]

IsTerminal_OnlyCompleted(event) == event \in {"completed"}

\* stream_sse: if sse.event in ("completed", "error"): break
IsTerminal(event) == event \in {"completed", "error"}

OnBadFrame_Break == "finished"

\* stream_sse, the except branch: log and continue with the next frame
OnBadFrame == "running"

Emitted_Coalesce(ys, ev) ==
    IF ys # <<>> /\ ys[Len(ys)].event = "llm_token" /\ ev.event = "llm_token"
    THEN [ys EXCEPT ![Len(ys)].data = @ \cup ev.data]
    ELSE Append(ys, ev)

\* stream_sse: yield StreamEvent(...), one event per decoded frame
Emitted(ys, ev) == Append(ys, ev)

\* replies to the request that opens the stream: an event stream, a response
\* that is no event stream (httpx_sse raises SSEError), or a transport failure
StreamReplies == {200, 401, TransportFailure}

Connect_Retry(log, headers, status) ==
    IF status = 401 /\ static_token # ""
    THEN log \o <<Request("GET", headers, status), Exchange(static_token, 401, 0),
                  Request("GET", headers, status)>>
    ELSE Append(log, Request("GET", headers, status))

\* stream_sse: the network calls of connect_sse after the pre-flight made the
\* calls in log: the stream request, sent once whatever the reply
Connect(log, headers, status) == Append(log, Request("GET", headers, status))

\* stream_sse up to iter_sse: _ensure_authenticated, the auth headers, a
\* client of its own and connect_sse; n frames will arrive on the stream
StreamOpen(n) ==
    /\ spc = "idle"
    /\ frames' = <<>>
    /\ UNCHANGED <<loaded, otherVars, now, yielded, pc, call, result, pre, workerVars>>
    /\ \E r \in ExchangeReplies, status \in StreamReplies :
         LET outcome == CASE EnsureBranch = "valid" -> "ok"
                          [] EnsureBranch = "exchange" -> AuthOutcome(static_token, r.status)
                          [] OTHER -> "TokenExpiredError"
             log == IF EnsureBranch = "exchange" THEN Logged(<<>>, static_token, r.status, r.expires_in)
                    ELSE <<>>
         IN
         /\ IF EnsureBranch = "exchange"
            THEN AuthEffect(static_token, r.status, r.expires_in)
            ELSE UNCHANGED <<config, config_file, static_token, issued>>
         /\ IF outcome # "ok"
            THEN /\ spc' = "finished" /\ send' = outcome /\ conn' = "none"
                 /\ wire' = log /\ pending' = 0
            ELSE /\ wire' = Connect(log, GetAuthHeaders(config'), status)
                 /\ CASE status = 200 ->
                           /\ spc' = "running" /\ send' = "none" /\ conn' = "open"
                           /\ pending' = n
                      [] status = TransportFailure ->
                           /\ spc' = "finished" /\ send' = "TransportError"
                           /\ conn' = "closed" /\ pending' = 0
                      [] OTHER ->
                           /\ spc' = "finished" /\ send' = "SSEError"
                           /\ conn' = "closed" /\ pending' = 0

\* stream_sse: one turn of `for sse in event_source.iter_sse()`
StreamRead ==
    /\ spc = "running"
    /\ IF pending = 0
       THEN /\ spc' = "finished" /\ send' = "end_of_stream" /\ conn' = "closed"
            /\ UNCHANGED <<frames, pending, yielded>>
       ELSE \E sse \in FrameAlphabet :
            LET d == DecodeFrame(sse, now) IN
            /\ frames' = Append(frames, sse)
            /\ pending' = pending - 1
            /\ IF d.raised
               THEN /\ spc' = OnBadFrame
                    /\ send' = IF spc' = "finished" THEN "end_of_stream" ELSE send
                    /\ conn' = IF spc' = "finished" THEN "closed" ELSE conn
                    /\ yielded' = yielded
               ELSE /\ yielded' = Emitted(yielded, d.event)
                    /\ spc' = "yielded"
                    /\ UNCHANGED <<send, conn>>
    /\ UNCHANGED <<loaded, otherVars, sessVars, httpVars, workerVars>>

\* the read of the next frame fails: reset, timeout; the exception leaves
\* both with-blocks
StreamTransportError ==
    /\ spc = "running"
    /\ spc' = "finished" /\ send' = "TransportError" /\ conn' = "closed"
    /\ UNCHANGED <<loaded, otherVars, sessVars, httpVars, frames, pending, yielded, workerVars>>

\* stream_sse after the yield: the generator is resumed and breaks out of the
\* loop if the frame just yielded was terminal
ResumeEffect ==
    /\ IF IsTerminal(frames[Len(frames)].event)
       THEN spc' = "finished" /\ send' = "terminal" /\ conn' = "closed"
       ELSE spc' = "running" /\ UNCHANGED <<send, conn>>
    /\ UNCHANGED <<frames, pending, yielded>>

\* stream_sse dropped at the yield: GeneratorExit is raised there (it is no
\* Exception, so the except branch lets it pass) and leaves the with-blocks
CloseEffect ==
    /\ spc' = "finished" /\ send' = "closed" /\ conn' = "closed"
    /\ UNCHANGED <<frames, pending, yielded>>

\* a consumer asks for the next event
StreamResume ==
    /\ spc = "yielded"
    /\ ResumeEffect
    /\ UNCHANGED <<loaded, otherVars, sessVars, httpVars, workerVars>>

\* a consumer drops the generator
StreamClose ==
    /\ spc = "yielded"
    /\ CloseEffect
    /\ UNCHANGED <<loaded, otherVars, sessVars, httpVars, workerVars>>

\* sessions a stream may be opened in: a valid bearer, or none with or
\* without a cached static token
StreamSessions ==
    {[token_data |-> Some(TokenData(1, 2, "alice", "alice")), static_token |-> "", issued |-> 1],
     [token_data |-> None, static_token |-> "st-alice", issued |-> 0],
     [token_data |-> None, static_token |-> "", issued |-> 0]}

StreamInit ==
    /\ now = 0
    /\ \E ss \in StreamSessions :
          /\ config = [DefaultConfig EXCEPT !.token_data = ss.token_data]
          /\ config_file = IF ss.token_data = None THEN None ELSE FileAfterSave(config)
          /\ static_token = ss.static_token
          /\ issued = ss.issued
    /\ loaded = TRUE
    /\ credentials_file = NoCredentials
    /\ error = None
    /\ net = NoNet
    /\ suspended = IdleStream
    /\ pc = "idle"
    /\ call = NoCall
    /\ wire = <<>>
    /\ result = "pending"
    /\ pre = Snapshot
    /\ spc = "idle"
    /\ frames = <<>>
    /\ pending = 0
    /\ yielded = <<>>
    /\ send = "none"
    /\ conn = "none"
    /\ NoWorker

StreamNext ==
    \/ \E n \in 0..MaxFrames : StreamOpen(n)
    \/ StreamRead
    \/ StreamTransportError
    \/ StreamResume
    \/ StreamClose

StreamSpec == StreamInit /\ [][StreamNext]_vars

(* ------------------------ stream_sse: properties ----------------------- *)

\* payloads that parse as structured data: a JSON object, or no data at all
WellFormedPayloads == {RawEmpty, RawHel, RawLo, RawMsg, RawFinal}
WellFormed(f) == f.data \in WellFormedPayloads
NumWellFormed(fs) == Cardinality({i \in DOMAIN fs : WellFormed(fs[i])})
TerminalKinds == {"completed", "error"}

\* the event a well-formed frame stands for
EventOf(f) ==
    [event |-> IF f.event = "" THEN "message" ELSE f.event,
     data |-> IF f.data = RawEmpty THEN {} ELSE JsonLoads(f.data).value,
     timestamp |-> now]

\* the events a frame sequence stands for: its well-formed frames in order,
\* up to and including the first completed/error one
RECURSIVE Expected(_)
Expected(fs) ==
    IF fs = <<>> THEN <<>>
    ELSE IF ~WellFormed(Head(fs)) THEN Expected(Tail(fs))
    ELSE IF Head(fs).event \in TerminalKinds THEN <<EventOf(Head(fs))>>
    ELSE <<EventOf(Head(fs))>> \o Expected(Tail(fs))

\* C3: the events yielded are exactly the well-formed frames read, in arrival
\* order, one event per frame, up to and including the first completed/error
\* event; a stream that ends at the end of input has read every frame.
C3_ArrivalOrder ==
    /\ yielded = Expected(frames)
    /\ (send = "end_of_stream" => pending = 0)

\* two adjacent llm_token frames, then completed: three events
C3_Witness ==
    /\ send = "terminal" /\ Len(yielded) = 3
    /\ yielded[1].event = "llm_token" /\ yielded[2].event = "llm_token"
    /\ yielded[1].data # yielded[2].data

\* the last event yielded is completed or error
TerminalYielded == yielded # <<>> /\ yielded[Len(yielded)].event \in TerminalKinds

\* C4: once a completed or error event has been yielded, no further event is
\* yielded and no further frame is read even if the transport holds more, and
\* the generator's next step ends it with the streaming connection closed.
C4_StopsAtTerminal ==
    /\ []((TerminalYielded /\ spc # "yielded") => (spc = "finished" /\ conn = "closed"))
    /\ [][TerminalYielded =>
            (/\ yielded' = yielded /\ frames' = frames /\ pending' = pending
             /\ spc' = "finished" /\ conn' = "closed")]_vars

\* a stream ended by a terminal event while the transport held more frames
C4_Witness ==
    /\ spc = "finished" /\ send = "terminal" /\ pending > 0 /\ conn = "closed"
    /\ TerminalYielded

\* C5: a frame whose payload does not parse is skipped without ending the
\* stream; a stream that runs to the end of its input (no terminal event
\* before it) has read every frame and yielded as many events as there were
\* well-formed frames.
C5_MalformedSkipped ==
    /\ [](send = "end_of_stream" => (pending = 0 /\ Len(yielded) = NumWellFormed(frames)))
    /\ [][(frames' # frames /\ ~WellFormed(frames'[Len(frames')]))
            => (spc' = "running" /\ conn' = "open" /\ yielded' = yielded)]_vars

\* a malformed frame between two well-formed ones: two events
C5_Witness ==
    /\ send = "end_of_stream" /\ Len(frames) = 3 /\ Len(yielded) = 2
    /\ WellFormed(frames[1]) /\ ~WellFormed(frames[2]) /\ WellFormed(frames[3])

(* ------------------- the request executor: properties ------------------ *)

\* positions in the network log of the running call
SendsAt == {i \in DOMAIN wire : wire[i].kind = "request"}
ExchangesAt == {i \in DOMAIN wire : wire[i].kind = "exchange"}
Sends == Cardinality(SendsAt)
Exchanges == Cardinality(ExchangesAt)
FirstSend == CHOOSE i \in SendsAt : \A j \in SendsAt : i <= j
\* the network calls made after the first send of the request
AfterFirstSend == SubSeq(wire, FirstSend + 1, Len(wire))
IsRequestCall == call.op \in {"request", "upload_file", "client_upload_file"}
\* the call is over and its first send was answered 401 with a credential cached
Answered401 ==
    /\ pc = "done" /\ IsRequestCall /\ call.require_auth /\ static_token # ""
    /\ SendsAt # {} /\ wire[FirstSend].status = 401

\* C1 as stated: a request() with require_auth and a cached static token whose
\* first send is answered 401 makes exactly one POST /auth/exchange followed
\* by exactly one re-send; a 401 on the re-send ends the call with an
\* authentication error.
C1_AsStated ==
    Answered401 =>
        /\ Len(AfterFirstSend) = 2
        /\ AfterFirstSend[1].kind = "exchange"
        /\ AfterFirstSend[2].kind = "request"
        /\ Sends = 2
        /\ (wire[Len(wire)].status = 401 => result = "AuthenticationError")

\* C1 (amended): the request is never sent more than twice; after a 401 on the
\* first send exactly one POST /auth/exchange is made; if that
\* re-authentication succeeds it is followed by exactly one re-send of the same
\* request (same method), and a 401 on the re-send ends the call with
\* AuthenticationError after exactly two sends; if it fails the call ends
\* with the exchange's error and the request has been sent exactly once.
C1_OneReauthOneRetry ==
    /\ IsRequestCall => Sends <= 2
    /\ Answered401 =>
          LET tail == AfterFirstSend IN
          /\ Len(tail) >= 1
          /\ tail[1].kind = "exchange"
          /\ tail[1].cred = static_token
          /\ Cardinality({i \in DOMAIN tail : tail[i].kind = "exchange"}) = 1
          /\ IF tail[1].status = 200
             THEN /\ Len(tail) = 2
                  /\ tail[2].kind = "request"
                  /\ tail[2].method = wire[FirstSend].method
                  /\ Sends = 2
                  /\ (tail[2].status = 401 => result = "AuthenticationError")
             ELSE /\ Len(tail) = 1
                  /\ Sends = 1
                  /\ result = Outcome(tail[1].status)

\* a call whose first send and re-send were both answered 401
C1_Witness ==
    /\ Answered401 /\ Sends = 2 /\ wire[Len(wire)].status = 401
    /\ result = "AuthenticationError"

\* a request() is running
RequestRunning == Running /\ call.op = "request"

\* C2: every request() call terminates, and over the whole call the request
\* is sent at most twice and POST /auth/exchange at most twice (once by the
\* pre-flight _ensure_authenticated, once by the 401 branch).
C2_TerminatesBounded ==
    /\ [](call.op = "request" => (Sends <= 2 /\ Exchanges <= 2))
    /\ (RequestRunning ~> pc = "done")

\* a finished request() that made two exchanges and two sends
C2_Witness == pc = "done" /\ call.op = "request" /\ Sends = 2 /\ Exchanges = 2

\* the cached bearer is absent or expired
BearerMissingOrExpired ==
    \/ config.token_data = None
    \/ config.token_data[1].expires_at <= now

\* _ensure_authenticated is about to run
AtEnsure == pc \in {"ensure", "upload_ensure"}

\* C7: when the bearer is absent or expired and no static token is cached,
\* _ensure_authenticated (in request() and in upload_file()) raises
\* TokenExpiredError and no network call has been made: no exchange, no send.
C7_TokenExpiredNoNetwork ==
    [][(AtEnsure /\ BearerMissingOrExpired /\ static_token = "" /\ pc' # pc)
         => (pc' = "done" /\ result' = "TokenExpiredError" /\ wire' = <<>>
             /\ UNCHANGED sessVars)]_vars

\* a request() and an upload_file() ended by TokenExpiredError
C7_Witness ==
    /\ pc = "done" /\ result = "TokenExpiredError" /\ wire = <<>>
    /\ call.op = "upload_file"

ExchangeFailed ==
    /\ pc = "done" /\ call.op = "authenticate"
    /\ wire # <<>> /\ wire[1].status # 200

\* C9 as stated: when authenticate() fails because the exchange is answered
\* with a non-success status or the transport fails, the stored bearer, the
\* session file and the credential cached for re-authentication are unchanged.
C9_FailureChangesNothing ==
    ExchangeFailed =>
        /\ config = pre.config
        /\ config_file = pre.config_file
        /\ static_token = pre.static_token

\* C10 as stated: every non-success response to POST /auth/exchange makes
\* authenticate() fail with AuthenticationError.
C10_AllFailuresAreAuthErrors ==
    (ExchangeFailed /\ wire[1].status # TransportFailure)
        => result = "AuthenticationError"

(* ----------------------- gui.py: StreamWorker.run ---------------------- *)

\* len(local_files) is at most this
MaxFiles == 2

\* a Qt signal emitted by the worker: its name and its arguments
Signal(name, args) == [name |-> name, args |-> args]

\* dict.get(key, default) on a dict held as a set of key/value pairs
Get(d, k, default) ==
    IF \E p \in d : p[1] = k THEN (CHOOSE p \in d : p[1] = k)[2] ELSE default

\* run, the body of the event loop after the stop check: sse_event for every
\* event, then the signal of its kind
SignalsFor(event, received) ==
    LET e == event.event
        d == event.data
    IN <<Signal("sse_event", <<e, d>>)>> \o
       CASE e = "queue_position" ->
              <<Signal("phase_started", <<"queue", Get(d, "position", 0)>>)>>
         [] e = "processing_started" ->
              <<Signal("phase_started", <<"processing">>)>>
         [] e = "llm_token" ->
              <<Signal("token_received", <<Get(d, "token", "")>>)>>
         [] e = "phase_started" ->
              <<Signal("phase_started", <<Get(d, "phase", ""), Get(d, "description", "")>>)>>
         [] e = "tool_call" ->
              <<Signal("tool_called", <<Get(d, "tool", "unknown"), Get(d, "reason", ""),
                                        Get(d, "parameters", {})>>)>>
         [] e = "llm_thinking" ->
              IF Get(d, "content", "") # ""
              THEN <<Signal("thinking_received", <<Get(d, "content", "")>>)>>
              ELSE <<>>
         [] e = "image_ready" ->
              <<Signal("image_ready", <<d>>)>>
         [] e = "llm_final" ->
              <<Signal("llm_final_received", <<Get(d, "content", "")>>)>> \o
              (IF Get(d, "content", "") # "" /\ ~received
               THEN <<Signal("token_received", <<Get(d, "content", "")>>)>>
               ELSE <<>>)
         [] e = "error" ->
              <<Signal("error_occurred", <<Get(d, "message", "Unknown error")>>)>>
         [] OTHER -> <<>>

\* run: if token: self._received_tokens = True
ReceivedAfter(event, received) ==
    received \/ (event.event = "llm_token" /\ Get(event.data, "token", "") # "")

\* run, first statement: UUID(self.chat_id); a chat id that is no UUID
\* raises ValueError, caught by the outer except
WorkerStart ==
    /\ wpc = "created"
    /\ \E valid \in BOOLEAN :
         IF valid
         THEN wpc' = "uploads" /\ UNCHANGED signals
         ELSE /\ wpc' = "done"
              /\ signals' = Append(signals, Signal("error_occurred", <<"ValueError">>))
    /\ UNCHANGED <<loaded, otherVars, sessVars, httpVars, streamVars, stop_requested, received_tokens, nfiles,
                   fidx, google_files, wlog, cancelled_at>>

\* variant: the first failed upload ends the upload loop
WorkerUpload_AbortOnFailure ==
    /\ wpc = "uploads"
    /\ IF fidx > nfiles \/ stop_requested
       THEN /\ wpc' = "submit"
            /\ UNCHANGED <<fidx, google_files, signals, wlog>>
       ELSE \E ok \in BOOLEAN :
            /\ wlog' = Append(wlog, <<"upload_file_for_llm", fidx>>)
            /\ signals' = signals \o <<Signal("phase_started", <<"upload", fidx>>)>> \o
                          (IF ok THEN <<Signal("file_uploaded", <<fidx>>)>>
                           ELSE <<Signal("error_occurred", <<"upload", fidx>>)>>)
            /\ google_files' = IF ok THEN Append(google_files, fidx) ELSE google_files
            /\ fidx' = fidx + 1
            /\ wpc' = IF ok THEN wpc ELSE "submit"
    /\ UNCHANGED <<loaded, otherVars, sessVars, httpVars, streamVars, stop_requested,
                   received_tokens, nfiles, cancelled_at>>

\* run, one turn of the upload loop: leave it when the files are exhausted or
\* the stop flag is set; else upload the file, which succeeds or raises
WorkerUpload ==
    /\ wpc = "uploads"
    /\ IF fidx > nfiles \/ stop_requested
       THEN /\ wpc' = "submit"
            /\ UNCHANGED <<fidx, google_files, signals, wlog>>
       ELSE \E ok \in BOOLEAN :
            /\ wlog' = Append(wlog, <<"upload_file_for_llm", fidx>>)
            /\ signals' = signals \o <<Signal("phase_started", <<"upload", fidx>>)>> \o
                          (IF ok THEN <<Signal("file_uploaded", <<fidx>>)>>
                           ELSE <<Signal("error_occurred", <<"upload", fidx>>)>>)
            /\ google_files' = IF ok THEN Append(google_files, fidx) ELSE google_files
            /\ fidx' = fidx + 1
            /\ UNCHANGED wpc
    /\ UNCHANGED <<loaded, otherVars, sessVars, httpVars, streamVars, stop_requested, received_tokens, nfiles,
                   cancelled_at>>

\* run: the document ids are parsed (ValueError if one is no UUID), then the
\* for statement asks send_message for its first event, which POSTs the
\* message; the session holds a valid bearer and no static token, so the POST
\* neither authenticates before nor re-authenticates after a 401
WorkerSubmit ==
    /\ wpc = "submit"
    /\ \E ids_ok \in BOOLEAN, status \in Replies :
         LET outcome == IF ~ids_ok THEN "ValueError" ELSE Outcome(status) IN
         /\ wlog' = IF ids_ok THEN Append(wlog, <<"post_message", google_files>>) ELSE wlog
         /\ IF outcome = "ok"
            THEN wpc' = "events" /\ UNCHANGED signals
            ELSE /\ wpc' = "done"
                 /\ signals' = Append(signals, Signal("error_occurred", <<outcome>>))
    /\ UNCHANGED <<loaded, otherVars, sessVars, httpVars, streamVars, stop_requested, received_tokens, nfiles,
                   fidx, google_files, cancelled_at>>

\* send_message: yield from stream_sse, up to the open connection
WorkerStreamOpen(n) == wpc = "events" /\ StreamOpen(n)

\* the generator reads the next frame while the worker waits for an event
WorkerStreamRead == wpc = "events" /\ StreamRead

\* the read of the next frame fails while the worker waits for an event
WorkerStreamError == wpc = "events" /\ StreamTransportError

\* run, the body of the event loop for the event just yielded: break when the
\* stop flag is set (the for statement drops the generator, which closes the
\* connection), else emit the signals and ask for the next event
WorkerEvent ==
    /\ wpc = "events"
    /\ spc = "yielded"
    /\ IF stop_requested
       THEN /\ CloseEffect
            /\ cancelled_at' = Len(signals)
            /\ wpc' = "after_loop"
            /\ UNCHANGED <<signals, received_tokens>>
       ELSE /\ signals' = signals \o SignalsFor(yielded[Len(yielded)], received_tokens)
            /\ received_tokens' = ReceivedAfter(yielded[Len(yielded)], received_tokens)
            /\ ResumeEffect
            /\ UNCHANGED <<wpc, cancelled_at>>
    /\ UNCHANGED <<loaded, otherVars, sessVars, httpVars, stop_requested, nfiles, fidx, google_files, wlog>>

Exhausted_Always(how) == how = how

\* the for statement: the generator returned (StopIteration) rather than
\* raised
Exhausted(how) == how \in {"end_of_stream", "terminal"}

\* variant: the exception of the generator is handled inside the try body,
\* and run goes on to the statements after the loop
WorkerLoopEnd_HandledInside ==
    /\ wpc = "events"
    /\ spc = "finished"
    /\ wpc' = "after_loop"
    /\ signals' = IF Exhausted(send) THEN signals
                  ELSE Append(signals, Signal("error_occurred", <<send>>))
    /\ UNCHANGED <<loaded, otherVars, sessVars, httpVars, streamVars, stop_requested, received_tokens, nfiles,
                   fidx, google_files, wlog, cancelled_at>>

\* run: the generator ended; the loop is left, or the exception it raised is
\* caught by the outer except
WorkerLoopEnd ==
    /\ wpc = "events"
    /\ spc = "finished"
    /\ IF Exhausted(send)
       THEN wpc' = "after_loop" /\ UNCHANGED signals
       ELSE /\ wpc' = "done"
            /\ signals' = Append(signals, Signal("error_occurred", <<send>>))
    /\ UNCHANGED <<loaded, otherVars, sessVars, httpVars, streamVars, stop_requested, received_tokens, nfiles,
                   fidx, google_files, wlog, cancelled_at>>

\* run, after the event loop, however it was left:
\* self.sse_event.emit("completed", {}); self.completed.emit()
WorkerComplete ==
    /\ wpc = "after_loop"
    /\ signals' = signals \o <<Signal("sse_event", <<"completed", {}>>),
                               Signal("completed", <<>>)>>
    /\ wpc' = "done"
    /\ UNCHANGED <<loaded, otherVars, sessVars, httpVars, streamVars, stop_requested, received_tokens, nfiles,
                   fidx, google_files, wlog, cancelled_at>>

\* StreamWorker.stop, called from the thread that owns the worker
WorkerStop ==
    /\ wpc # "none"
    /\ stop_requested' = TRUE
    /\ UNCHANGED <<loaded, otherVars, sessVars, httpVars, streamVars, wpc, received_tokens, nfiles, fidx,
                   google_files, signals, wlog, cancelled_at>>

\* a worker constructed over a logged-in client
WorkerInit ==
    /\ now = 0
    /\ config = [DefaultConfig EXCEPT !.token_data = Some(TokenData(1, 2, "alice", "alice"))]
    /\ config_file = FileAfterSave(config)
    /\ loaded = TRUE
    /\ credentials_file = NoCredentials
    /\ error = None
    /\ net = NoNet
    /\ suspended = IdleStream
    /\ static_token = ""
    /\ issued = 1
    /\ pc = "idle"
    /\ call = NoCall
    /\ wire = <<>>
    /\ result = "pending"
    /\ pre = Snapshot
    /\ spc = "idle"
    /\ frames = <<>>
    /\ pending = 0
    /\ yielded = <<>>
    /\ send = "none"
    /\ conn = "none"
    /\ wpc = "created"
    /\ stop_requested = FALSE
    /\ received_tokens = FALSE
    /\ nfiles \in 0..MaxFiles
    /\ fidx = 1
    /\ google_files = <<>>
    /\ signals = <<>>
    /\ wlog = <<>>
    /\ cancelled_at = -1

WorkerNext ==
    \/ WorkerStart
    \/ WorkerUpload
    \/ WorkerSubmit
    \/ \E n \in 0..MaxFrames : WorkerStreamOpen(n)
    \/ WorkerStreamRead
    \/ WorkerStreamError
    \/ WorkerEvent
    \/ WorkerLoopEnd
    \/ WorkerComplete
    \/ WorkerStop

WorkerSpec == WorkerInit /\ [][WorkerNext]_vars

(* ----------------------- StreamWorker: properties ---------------------- *)

\* C6 (as stated): once the event loop has observed the stop flag set, the
\* worker emits no further signal of any kind (no completed either), and the
\* stream connection is closed
C6_NoSignalAfterCancel ==
    cancelled_at >= 0 => (Len(signals) = cancelled_at /\ conn = "closed")

\* what does hold after the flag was observed: the connection is closed and
\* the generator has ended, so no further frame is consumed
C6_ClosedAfterCancel ==
    cancelled_at >= 0 => (conn = "closed" /\ spc = "finished" /\ send = "closed")

\* the flag was observed with frames still to come, and the worker has ended
C6_Cancelled ==
    cancelled_at >= 0 /\ pending > 0 /\ wpc = "done"

(* ------------------------ authenticate: the bearer --------------------- *)

\* the step is a successful authenticate(): the server issued a token
AuthSucceeds == issued' = issued + 1

\* the reply to the exchange the step made
LastReply == wire'[Len(wire')]

\* C11: after a successful authenticate() the stored bearer's expires_at is
\* the time of issue plus the expires_in the server declared, for every
\* declared lifetime; with a lifetime of zero or less is_token_valid() then
\* reports the token invalid
C11_ExpiresAtIsIssuePlusLifetime ==
    [][AuthSucceeds =>
         /\ LastReply.kind = "exchange" /\ LastReply.status = 200
         /\ GetToken(config') # None
         /\ GetToken(config')[1].expires_at = now + LastReply.expires_in
         /\ GetToken(config')[1].access_token = issued'
         /\ config_file' = FileAfterSave(config')
         /\ (LastReply.expires_in <= 0 => ~IsTokenValid(config', now'))
         /\ (LastReply.expires_in > 0 => IsTokenValid(config', now'))]_vars

\* authenticate() has just succeeded with a negative declared lifetime, at a
\* time past 0
C11_Witness ==
    /\ call.op = "authenticate" /\ pc = "done" /\ result = "ok"
    /\ wire[1].expires_in < 0
    /\ now > 0
    /\ GetToken(config)[1].expires_at = now + wire[1].expires_in
    /\ ~IsTokenValid(config, now)

(* ------------------------ request: the bearer sent --------------------- *)

\* the step sends the request of a call made with require_auth=True
AuthSend ==
    /\ pc \in {"send", "resend"}
    /\ call.require_auth
    /\ Len(wire') = Len(wire) + 1

\* C12: every request sent with require_auth=True carries the bearer token
\* the session holds at the moment of that send; the re-send that follows a
\* 401 carries the token the re-authentication has just issued, not the one
\* that was rejected
C12_CarriesCurrentBearer ==
    [][AuthSend =>
         /\ wire'[Len(wire')].kind = "request"
         /\ GetToken(config) # None
         /\ wire'[Len(wire')].auth = Some(GetToken(config)[1].access_token)
         /\ (pc = "resend" =>
               /\ wire[Len(wire)].kind = "exchange" /\ wire[Len(wire)].status = 200
               /\ wire'[Len(wire')].auth = Some(issued)
               /\ wire'[Len(wire')].auth # wire[Len(wire) - 1].auth)]_vars

\* a request was answered 401, re-authentication succeeded and the request
\* was sent again
C12_Witness ==
    /\ IsRequestCall /\ call.require_auth /\ pc = "done"
    /\ Sends = 2
    /\ wire[FirstSend].status = 401
    /\ wire[Len(wire)].kind = "request"
    /\ wire[Len(wire)].auth = Some(issued)
    /\ wire[FirstSend].auth = Some(issued - 1)

(* --------------------- config.py: ConfigManager.load ------------------- *)

\* contents of the session file that are no document written by save(),
\* named by what is wrong with them
Defects ==
    {"truncated", "not_json", "bad_utf8", "json_list", "no_server_url", "token_not_object",
     "token_no_expiry", "expiry_not_str", "expiry_not_iso", "chat_not_uuid", "chat_not_str",
     "unreadable"}

Damaged(defect) == [defect |-> defect]

IsDamaged(content) == "defect" \in DOMAIN content

\* ConfigManager.load, the try body: the exception a damaged file raises.
\* open() raises PermissionError; reading raises UnicodeDecodeError;
\* json.load raises JSONDecodeError; data.get on a JSON value that is no
\* object raises AttributeError; data["token_data"]["expires_at"] raises
\* TypeError on a string and KeyError on an object without the key;
\* fromisoformat raises TypeError on a number and ValueError on other text;
\* UUID raises AttributeError on a number and ValueError on other text;
\* ClientConfig(**data) raises ValidationError without server_url
Raises(defect) ==
    CASE defect \in {"truncated", "not_json"} -> "JSONDecodeError"
      [] defect = "bad_utf8" -> "UnicodeDecodeError"
      [] defect \in {"json_list", "chat_not_str"} -> "AttributeError"
      [] defect \in {"token_not_object", "expiry_not_str"} -> "TypeError"
      [] defect = "token_no_expiry" -> "KeyError"
      [] defect \in {"expiry_not_iso", "chat_not_uuid"} -> "ValueError"
      [] defect = "no_server_url" -> "ValidationError"
      [] OTHER -> "PermissionError"

Caught_All ==
    {"JSONDecodeError", "KeyError", "ValueError", "UnicodeDecodeError", "ValidationError",
     "AttributeError", "TypeError", "PermissionError"}

\* ConfigManager.load: except (json.JSONDecodeError, KeyError, ValueError),
\* with the subclasses of ValueError
Caught == {"JSONDecodeError", "KeyError", "ValueError", "UnicodeDecodeError", "ValidationError"}

\* ConfigManager.load on a store that has not read the file: the exception
\* that leaves load ("" if none) and the record cached
Load(file) ==
    CASE file = None -> [raised |-> "", cfg |-> DefaultConfig]
      [] file # None /\ IsDamaged(file[1]) ->
           IF Raises(file[1].defect) \in Caught
           THEN [raised |-> "", cfg |-> DefaultConfig]
           ELSE [raised |-> Raises(file[1].defect), cfg |-> DefaultConfig]
      [] OTHER -> [raised |-> "", cfg |-> FromJson(file[1])]

\* ConfigManager.get_config: the cached record, read from the file first when
\* there is none
GetConfig == IF loaded THEN [raised |-> "", cfg |-> config] ELSE Load(config_file)

\* session records a caller may save
Records ==
    [server_url : {DEFAULT_SERVER_URL, "http://localhost:8000"},
     token_data : {None, Some(TokenData(1, 1, "alice", "alice"))},
     active_chat_id : {None, Some("chat-1")},
     data_dir : {None, Some("/data")}]

\* a well-formed session file that this program did not write (edited by
\* hand, written by another program): its server_url ends with a slash
ForeignRecord == [DefaultConfig EXCEPT !.server_url = "http://localhost:8000/"]

\* what the session file may hold when it was not written by save(): nothing
\* (no file), a damaged content, or a well-formed record of foreign origin
Contents ==
    {None} \cup {Some(Damaged(d)) : d \in Defects} \cup {FileAfterSave(ForeignRecord)}

StoreCall(op) == [op |-> op, method |-> "", require_auth |-> FALSE, path_exists |-> TRUE]

\* the cache after a call that went through get_config
Cached(got) ==
    /\ loaded' = (loaded \/ got.raised = "")
    /\ config' = IF got.raised = "" THEN got.cfg ELSE config

\* ConfigManager.load()
StoreLoad ==
    /\ call' = StoreCall("load")
    /\ Cached(GetConfig)
    /\ result' = IF GetConfig.raised = "" THEN "ok" ELSE GetConfig.raised
    /\ UNCHANGED <<now, config_file, otherVars, static_token, issued, pc, wire, pre, streamVars,
                   workerVars>>

\* what the disk does to a write: it succeeds, open() (or mkdir) fails, or
\* the write fails or the process dies after open() has truncated the file
DiskOutcomes == {"ok", "open_fails", "write_fails"}

\* ConfigManager.save: the file after open(self.config_file, "w") and
\* json.dump, which write in place
Written(file, r, disk) ==
    CASE disk = "ok" -> FileAfterSave(r)
      [] disk = "write_fails" -> Some(Damaged("truncated"))
      [] OTHER -> file

\* ConfigManager.save: nothing catches an OSError of mkdir, open or write
SaveOutcome(disk) == IF disk = "ok" THEN "ok" ELSE "OSError"

\* ConfigManager.save(r): self._config = r, then the file is written
SaveEffect(r, disk) ==
    /\ config' = r
    /\ loaded' = TRUE
    /\ config_file' = Written(config_file, r, disk)
    /\ result' = SaveOutcome(disk)

\* ConfigManager.save(r)
StoreSave(r, disk) ==
    /\ call' = StoreCall("save")
    /\ SaveEffect(r, disk)
    /\ UNCHANGED <<now, otherVars, static_token, issued, pc, wire, pre, streamVars, workerVars>>

\* ConfigManager.is_token_valid()
StoreIsTokenValid ==
    /\ call' = StoreCall("is_token_valid")
    /\ Cached(GetConfig)
    /\ result' = IF GetConfig.raised # "" THEN GetConfig.raised
                 ELSE IF IsTokenValid(GetConfig.cfg, now) THEN "True" ELSE "False"
    /\ UNCHANGED <<now, config_file, otherVars, static_token, issued, pc, wire, pre, streamVars,
                   workerVars>>

\* a ConfigManager is constructed over the same directory
StoreReopen ==
    /\ loaded
    /\ call' = StoreCall("__init__")
    /\ loaded' = FALSE
    /\ config' = DefaultConfig
    /\ result' = "ok"
    /\ UNCHANGED <<now, config_file, otherVars, static_token, issued, pc, wire, pre, streamVars,
                   workerVars>>

\* the session file is deleted or damaged from outside the program
FileChanges(content) ==
    /\ content # config_file
    /\ config_file' = content
    /\ UNCHANGED <<now, config, loaded, otherVars, static_token, issued, httpVars, streamVars,
                   workerVars>>

StoreInit ==
    /\ now = 0
    /\ config = DefaultConfig
    /\ config_file \in Contents
    /\ loaded = FALSE
    /\ credentials_file = NoCredentials
    /\ error = None
    /\ net = NoNet
    /\ suspended = IdleStream
    /\ static_token = ""
    /\ issued = 0
    /\ pc = "idle"
    /\ call = NoCall
    /\ wire = <<>>
    /\ result = "pending"
    /\ pre = Snapshot
    /\ spc = "idle"
    /\ frames = <<>>
    /\ pending = 0
    /\ yielded = <<>>
    /\ send = "none"
    /\ conn = "none"
    /\ NoWorker

StoreNext ==
    \/ StoreLoad
    \/ \E r \in Records, disk \in DiskOutcomes : StoreSave(r, disk)
    \/ StoreIsTokenValid
    \/ StoreReopen
    \/ \E content \in Contents : FileChanges(content)
    \/ Tick

StoreSpec == StoreInit /\ [][StoreNext]_vars

(* ------------------------- the store: properties ----------------------- *)

LoadReads == StoreLoad /\ ~loaded

\* C19 (as stated): for every content of the session file that is no
\* well-formed session record, load() returns the default record and does not
\* raise
C19_DamagedFileGivesDefault ==
    [][(LoadReads /\ config_file # None /\ IsDamaged(config_file[1])) =>
         (result' = "ok" /\ loaded' /\ config' = DefaultConfig)]_vars

\* what does hold: a damaged file either loads as the default record or makes
\* load() raise an exception that its except clause does not name; the file
\* is never rewritten by load()
C19_DefaultOrUncaught ==
    [][(LoadReads /\ config_file # None /\ IsDamaged(config_file[1])) =>
         /\ config_file' = config_file
         /\ \/ result' = "ok" /\ loaded' /\ config' = DefaultConfig
            \/ result' \in {"AttributeError", "TypeError", "PermissionError"} /\ ~loaded']_vars

C14_NoReauthAfterConnect ==
    /\ Sends <= 1
    /\ Exchanges <= 1
    /\ \A i \in ExchangesAt, j \in SendsAt : i < j
    /\ (conn # "none" => Sends = 1)
    /\ (SendsAt # {} /\ wire[Len(wire)].status = 401 =>
          spc = "finished" /\ send = "SSEError" /\ yielded = <<>>)

\* the pre-flight exchanged the cached credential, the stream request was then
\* answered 401, and the stream ended
C14_Witness ==
    /\ static_token # ""
    /\ Len(wire) = 2
    /\ wire[1].kind = "exchange" /\ wire[1].status = 200
    /\ wire[2].kind = "request" /\ wire[2].status = 401
    /\ spc = "finished" /\ send = "SSEError"

\* the worker has emitted the signal `name`
Emits(name) == \E i \in DOMAIN signals : signals[i].name = name

\* the worker has reported the exception class `exc` through error_occurred
Reports(exc) ==
    \E i \in DOMAIN signals : signals[i].name = "error_occurred" /\ signals[i].args = <<exc>>

\* the last event the generator yielded was completed or error
EndedByTerminalEvent == yielded # <<>> /\ IsTerminal(yielded[Len(yielded)].event)

\* C15: the caller can always tell how a stream ended. A transport failure
\* ends the generator by raising, and never after a terminal event was
\* yielded; an end via completed/error is a normal return. A listener of the
\* worker's signals sees error_occurred and no completed for a transport
\* failure, and completed (never a reported transport error) for an end via a
\* terminal event
C15_EndIsDistinguishable ==
    /\ (send = "TransportError" => spc = "finished" /\ ~EndedByTerminalEvent)
    /\ (send = "terminal" => spc = "finished" /\ EndedByTerminalEvent)
    /\ (wpc = "done" /\ send = "TransportError" =>
          /\ ~Emits("completed")
          /\ signals[Len(signals)].name = "error_occurred"
          /\ signals[Len(signals)].args = <<"TransportError">>)
    /\ (wpc = "done" /\ send = "terminal" =>
          /\ signals[Len(signals)].name = "completed"
          /\ ~Reports("TransportError"))

\* a stream delivered events and was then cut by a transport failure, and the
\* worker has ended
C15_Witness ==
    /\ wpc = "done"
    /\ send = "TransportError"
    /\ yielded # <<>>
    /\ conn = "closed"
    /\ Reports("TransportError")

(* ---------------------- stream_sse: kinds of frames -------------------- *)

\* the step reads a frame from the open stream
ReadsFrame == spc = "running" /\ Len(frames') = Len(frames) + 1

\* the frame names a kind that is not in the known kind set
UnknownKind(f) == f.event # "" /\ f.event \notin KNOWN_EVENT_TYPES

\* C16: a frame (with a well-formed payload) whose declared kind is not in the
\* known kind set is not dropped: it is yielded as an event that carries the
\* raw kind string unchanged and the frame's data, and the stream continues
\* after it: the generator, resumed, goes on reading with the connection open
C16_UnknownKindPreserved ==
    [][/\ (ReadsFrame /\ UnknownKind(frames'[Len(frames')]) /\ WellFormed(frames'[Len(frames')])) =>
            /\ yielded' = Append(yielded, EventOf(frames'[Len(frames')]))
            /\ yielded'[Len(yielded')].event = frames'[Len(frames')].event
            /\ spc' = "yielded" /\ conn' = "open"
       /\ (spc = "yielded" /\ UnknownKind(frames[Len(frames)]) /\ StreamResume) =>
            /\ spc' = "running" /\ conn' = "open"
            /\ yielded' = yielded /\ pending' = pending]_vars

\* an event of an unknown kind was yielded, and an event of a later frame
\* after it
C16_Witness ==
    \E i \in DOMAIN yielded :
        /\ yielded[i].event = "future_kind"
        /\ i < Len(yielded)
        /\ yielded[Len(yielded)].event = "llm_token"

(* --------------------------- upload: properties ------------------------ *)

\* an upload of a local path that does not exist
MissingPathUpload == call.op \in {"upload_file", "client_upload_file"} /\ ~call.path_exists

\* C18 (as stated): uploading a local path that does not exist, through
\* AIZoomDocClient.upload_file / upload_file_for_llm or HTTPClient.upload_file,
\* fails with a not-found error and no network call is made, neither the
\* upload request nor a token exchange, whatever the state of the cached token
C18_MissingPathNoNetwork ==
    MissingPathUpload =>
        /\ wire = <<>>
        /\ (pc = "done" => result \in {"FileNotFoundError", "AIZoomDocError"})

\* what does hold: the upload request itself is never sent for a missing
\* path, and the client-level calls make no network call at all
C18_NoUploadRequest ==
    MissingPathUpload =>
        /\ SendsAt = {}
        /\ (call.op = "client_upload_file" =>
               wire = <<>> /\ pc = "done" /\ result = "AIZoomDocError")

(* -------------------- stream_sse: terminal frames ---------------------- *)

\* positions of the frames read whose kind is completed or error
TerminalAt == {i \in DOMAIN frames : frames[i].event \in TerminalKinds}

\* C17 (as stated): receipt of any frame of kind completed or error ends
\* stream consumption: no frame that arrives after a completed/error frame is
\* ever yielded, whatever the frames (well-formed or not)
C17_TerminalFrameEndsStream ==
    \A i \in TerminalAt : Len(yielded) <= Len(Expected(SubSeq(frames, 1, i)))

\* what does hold: no frame is read after a completed/error frame whose
\* payload is well-formed
C17_WellFormedTerminalEndsStream ==
    \A i \in TerminalAt : WellFormed(frames[i]) => i = Len(frames)

(* --------------------------- save: properties -------------------------- *)

\* the step is a save(r)
Saves == \E r \in Records, disk \in DiskOutcomes : StoreSave(r, disk)

\* C21 (as stated): save() is an atomic whole-file overwrite: whatever
\* happens during a save (a write error or a crash in the middle of it
\* included) the session file afterwards holds either the complete previous
\* content or the complete new record, never a truncated or partial one
C21_SaveIsAtomic ==
    [][Saves => (config_file' = config_file \/ config_file' = FileAfterSave(config'))]_vars

\* what does hold: a save whose write succeeds leaves the complete new record
\* in the file, and a save that cannot open the file leaves it as it was
C21_CompleteWhenWritten ==
    [][Saves =>
         /\ (result' = "ok" => config_file' = FileAfterSave(config'))
         /\ (config_file' # config_file /\ config_file' # FileAfterSave(config') =>
               result' = "OSError" /\ config_file' = Some(Damaged("truncated")))]_vars

(* ------------------- config.py: the store's mutators ------------------- *)

\* addresses a caller may pass to set_server_url
Urls == {"http://localhost:8000", "http://localhost:8000/"}

\* url.rstrip("/") on the addresses above
RStrip(url) == IF url = "http://localhost:8000/" THEN "http://localhost:8000" ELSE url

\* a mutator: config = self.get_config() (which may have to load and may
\* raise), the field is set on the cached record, then self.save(config)
MutateEffect(op, new, disk) ==
    /\ call' = StoreCall(op)
    /\ IF GetConfig.raised # ""
       THEN result' = GetConfig.raised /\ UNCHANGED <<config, loaded, config_file>>
       ELSE SaveEffect(new, disk)
    /\ UNCHANGED <<now, otherVars, static_token, issued, pc, wire, pre, streamVars, workerVars>>

\* ConfigManager.set_server_url(url)
StoreSetServerUrl(url, disk) ==
    MutateEffect("set_server_url", [GetConfig.cfg EXCEPT !.server_url = RStrip(url)], disk)

\* ConfigManager.set_token(...)
StoreSetToken(disk) ==
    MutateEffect("set_token", SetToken(GetConfig.cfg, 1, 1, "alice", "alice"), disk)

\* ConfigManager.clear_token()
StoreClearToken(disk) ==
    MutateEffect("clear_token", [GetConfig.cfg EXCEPT !.token_data = None], disk)

\* ConfigManager.set_active_chat(chat_id)
StoreSetActiveChat(chat_id, disk) ==
    MutateEffect("set_active_chat", [GetConfig.cfg EXCEPT !.active_chat_id = chat_id], disk)

\* ConfigManager.set_data_dir(path)
StoreSetDataDir(path, disk) ==
    MutateEffect("set_data_dir", [GetConfig.cfg EXCEPT !.data_dir = path], disk)

\* ConfigManager.clear_all(): a new record keeping server_url and data_dir
StoreClearAll(disk) ==
    MutateEffect("clear_all",
                 [server_url |-> GetConfig.cfg.server_url, token_data |-> None,
                  active_chat_id |-> None, data_dir |-> GetConfig.cfg.data_dir], disk)

\* ConfigManager.save_static_token: the credentials document
Credentials(token, server_url) == [static_token |-> token, server_url |-> server_url]

\* ConfigManager.save_static_token: except Exception: logger.error(...), the
\* call returns normally whatever was raised
Swallowed(raised) == "ok"

\* ConfigManager.get_data_dir: the directory named by the session's data_dir,
\* the default one when it is not set
GetDataDir(cfg) == cfg.data_dir

\* ConfigManager.save_static_token(token, server_url): get_data_dir() reads
\* the configuration, then credentials.json of that directory is written in
\* place
StoreSaveStaticToken(token, url, disk) ==
    /\ call' = StoreCall("save_static_token")
    /\ Cached(GetConfig)
    /\ IF GetConfig.raised # ""
       THEN /\ result' = Swallowed(GetConfig.raised)
            /\ UNCHANGED credentials_file
       ELSE /\ result' = Swallowed(SaveOutcome(disk))
            /\ credentials_file' =
                  [credentials_file EXCEPT ![GetDataDir(GetConfig.cfg)] =
                      CASE disk = "ok" -> Some(Credentials(token, url))
                        [] disk = "write_fails" -> Some(Damaged("truncated"))
                        [] OTHER -> @]
    /\ UNCHANGED <<now, config_file, error, suspended, net, static_token, issued, pc, wire, pre,
                   streamVars, workerVars>>

\* ConfigManager.load_static_token: what it returns in the current state.
\* Every exception (of get_config, of json.load on a damaged file) is caught
\* and gives None, as does a missing file or an empty token or address
LoadStaticToken ==
    IF GetConfig.raised # "" THEN None
    ELSE LET file == credentials_file[GetDataDir(GetConfig.cfg)] IN
         IF file = None \/ IsDamaged(file[1]) THEN None
         ELSE IF file[1].static_token # "" /\ file[1].server_url # "" THEN file
         ELSE None

\* ConfigManager.load_static_token()
StoreLoadStaticToken ==
    /\ call' = [op |-> "load_static_token", method |-> "", require_auth |-> FALSE,
                path_exists |-> TRUE, returned |-> LoadStaticToken]
    /\ Cached(GetConfig)
    /\ result' = "ok"
    /\ UNCHANGED <<now, config_file, otherVars, static_token, issued, pc, wire, pre, streamVars,
                   workerVars>>

\* ConfigManager.clear_static_token(): credentials.json of the current data
\* directory is removed if it exists; every exception is caught
StoreClearStaticToken(disk) ==
    /\ call' = StoreCall("clear_static_token")
    /\ Cached(GetConfig)
    /\ result' = "ok"
    /\ IF GetConfig.raised = "" /\ disk = "ok"
       THEN credentials_file' = [credentials_file EXCEPT ![GetDataDir(GetConfig.cfg)] = None]
       ELSE UNCHANGED credentials_file
    /\ UNCHANGED <<now, config_file, error, suspended, net, static_token, issued, pc, wire, pre,
                   streamVars, workerVars>>

\* updates another ConfigManager instance (another process) may make
Updates ==
    {[field |-> "server_url", value |-> "http://localhost:8000"],
     [field |-> "active_chat_id", value |-> Some("chat-1")],
     [field |-> "token_data", value |-> None]}

\* another instance over the same file, which has just read it, runs a
\* mutator: the file holds what that instance read with one field changed
OtherInstanceUpdates(u) ==
    /\ Load(config_file).raised = ""
    /\ config_file' = FileAfterSave([Load(config_file).cfg EXCEPT ![u.field] = u.value])
    /\ config_file' # config_file
    /\ UNCHANGED <<now, config, loaded, otherVars, static_token, issued, httpVars, streamVars,
                   workerVars>>

\* what something other than this program leaves in the session file
ForeignContents == {None, Some(Damaged("unreadable")), FileAfterSave(ForeignRecord)}

MutatorNext ==
    \/ StoreLoad
    \/ StoreReopen
    \/ \E url \in Urls, disk \in DiskOutcomes : StoreSetServerUrl(url, disk)
    \/ \E disk \in DiskOutcomes : StoreSetToken(disk)
    \/ \E disk \in DiskOutcomes : StoreClearToken(disk)
    \/ \E chat_id \in {None, Some("chat-1")}, disk \in DiskOutcomes : StoreSetActiveChat(chat_id, disk)
    \/ \E path \in {None, Some("/data")}, disk \in DiskOutcomes : StoreSetDataDir(path, disk)
    \/ \E disk \in DiskOutcomes : StoreClearAll(disk)
    \/ \E disk \in DiskOutcomes : StoreSaveStaticToken("st-alice", "http://localhost:8000", disk)
    \/ StoreLoadStaticToken
    \/ \E disk \in {"ok", "open_fails"} : StoreClearStaticToken(disk)
    \/ \E u \in Updates : OtherInstanceUpdates(u)
    \/ \E content \in ForeignContents : FileChanges(content)

MutatorInit == StoreInit /\ config_file \in ForeignContents

MutatorSpec == MutatorInit /\ [][MutatorNext]_vars

(* --------------------- store mutators: properties ---------------------- *)

FailingDisk == DiskOutcomes \ {"ok"}

\* a mutator of the session file runs and its write fails
SessionWriteFails ==
    /\ GetConfig.raised = ""
    /\ \E disk \in FailingDisk :
          \/ StoreSetToken(disk)
          \/ StoreClearToken(disk)
          \/ StoreClearAll(disk)
          \/ \E url \in Urls : StoreSetServerUrl(url, disk)
          \/ \E chat_id \in {None, Some("chat-1")} : StoreSetActiveChat(chat_id, disk)
          \/ \E path \in {None, Some("/data")} : StoreSetDataDir(path, disk)

\* save_static_token runs and its write of credentials.json fails
CredentialsWriteFails ==
    /\ GetConfig.raised = ""
    /\ \E disk \in FailingDisk : StoreSaveStaticToken("st-alice", "http://localhost:8000", disk)

\* C22 (as stated): no store mutator, save_static_token included, returns
\* normally after its write to the disk has failed.
C22_WriteErrorSurfaced ==
    [][SessionWriteFails \/ CredentialsWriteFails => result' # "ok"]_vars

\* what does hold: the mutators of the session file raise the write error
C22_SessionWriteErrorSurfaced ==
    [][SessionWriteFails => result' = "OSError"]_vars

\* a mutator of one field of the session runs and its write succeeds
FieldWritten ==
    /\ GetConfig.raised = ""
    /\ \/ StoreSetToken("ok")
       \/ StoreClearToken("ok")
       \/ \E url \in Urls : StoreSetServerUrl(url, "ok")
       \/ \E chat_id \in {None, Some("chat-1")} : StoreSetActiveChat(chat_id, "ok")
       \/ \E path \in {None, Some("/data")} : StoreSetDataDir(path, "ok")

\* the session field a mutator sets
FieldOf(op) ==
    CASE op \in {"set_token", "clear_token"} -> "token_data"
      [] op = "set_active_chat" -> "active_chat_id"
      [] op = "set_server_url" -> "server_url"
      [] OTHER -> "data_dir"

EndsWithSlash(url) == RStrip(url) # url

WellFormedFile(file) == file # None /\ ~IsDamaged(file[1])

\* C29 (as stated): the session's server_url never ends with a slash,
\* whatever constructions, set_server_url calls and loads of well-formed
\* session files have happened.
C29_NoTrailingSlash == ~EndsWithSlash(config.server_url)

\* what does hold: set_server_url stores the address without the slash
C29_SetStripsSlash ==
    [][(\E url \in Urls, disk \in DiskOutcomes : StoreSetServerUrl(url, disk))
         /\ GetConfig.raised = "" => ~EndsWithSlash(config'.server_url)]_vars

\* C30 (as stated): a mutator writes the record persisted when it started
\* with only its own field changed, so an update another instance made to a
\* different field of the file is never undone.
C30_ReadModifyWrite ==
    [][FieldWritten /\ WellFormedFile(config_file) =>
         \A f \in DOMAIN DefaultConfig \ {FieldOf(call'.op)} :
            Load(config_file').cfg[f] = Load(config_file).cfg[f]]_vars

(* ------------- http_client.py, exceptions.py: error responses ---------- *)

\* exceptions.AIZoomDocError.__init__: details or {}; the classes outside
\* APIError have no status_code and no error_type attribute (None here)
AIZoomDocError(type, message, details) ==
    [type |-> type, message |-> message,
     details |-> IF details = None THEN {} ELSE details[1],
     status_code |-> None, error_type |-> None]

\* exceptions.AuthenticationError
AuthenticationError(message, details) == AIZoomDocError("AuthenticationError", message, details)

\* exceptions.APIError.__init__
APIError(message, status_code, error_type, details) ==
    [AIZoomDocError("APIError", message, details) EXCEPT
        !.status_code = Some(status_code), !.error_type = Some(error_type)]

\* exceptions.NotFoundError.__init__
NotFoundError(message, details) ==
    [APIError(message, 404, "not_found", details) EXCEPT !.type = "NotFoundError"]

\* exceptions.ServerError.__init__
ServerError(message, details) ==
    [APIError(message, 500, "server_error", details) EXCEPT !.type = "ServerError"]

\* exceptions.ValidationError.__init__
ValidationError(message, details) ==
    [APIError(message, 422, "validation_error", details) EXCEPT !.type = "ValidationError"]

\* a response body: its text, and the JSON object it parses to when it does
\* (kind "array": JSON that is no object; kind "invalid": no JSON)
Body(text, kind, object) == [text |-> text, kind |-> kind, object |-> object]

Bodies ==
    {Body("{error, message, details}", "object",
          {<<"error", "rate_limited">>, <<"message", "slow down">>, <<"details", "retry_after">>}),
     Body("{message}", "object", {<<"message", "no such chat">>}),
     Body("{}", "object", {}),
     Body("[]", "array", {}),
     Body("Bad Gateway", "invalid", {}),
     Body("", "invalid", {})}

\* status codes a server may answer with
ResponseStatuses ==
    {100} \cup (198..204) \cup (298..302) \cup (398..423) \cup (428..430) \cup (498..504) \cup {599}

Response(status_code, body) == [status_code |-> status_code, body |-> body]

\* _handle_response_error, the try block: response.json() raises on a body
\* that is no JSON and error_data.get raises on JSON that is no object
ErrorFields(response) ==
    LET body == response.body IN
    IF body.kind = "object"
    THEN [error_type |-> Get(body.object, "error", "unknown_error"),
          message |-> Get(body.object, "message", body.text),
          details |-> IF \E p \in body.object : p[1] = "details"
                      THEN Some({Get(body.object, "details", "")}) ELSE None]
    ELSE [error_type |-> "unknown_error",
          message |-> IF body.text # "" THEN body.text
                      ELSE "HTTP " \o ToString(response.status_code),
          details |-> None]

\* variant: only status 500 itself counts as a server error
RaisedFor_Only500(response) ==
    LET status == response.status_code
        f == ErrorFields(response) IN
    CASE IsSuccess(status) -> None
      [] status = 401 -> Some(AuthenticationError(f.message, f.details))
      [] status = 404 -> Some(NotFoundError(f.message, f.details))
      [] status \in {400, 422} -> Some(ValidationError(f.message, f.details))
      [] status = 500 -> Some(ServerError(f.message, f.details))
      [] OTHER -> Some(APIError(f.message, status, f.error_type, f.details))

\* HTTPClient._handle_response_error: the exception raised, None when the
\* method returns
RaisedFor(response) ==
    LET status == response.status_code
        f == ErrorFields(response) IN
    CASE IsSuccess(status) -> None
      [] status = 401 -> Some(AuthenticationError(f.message, f.details))
      [] status = 404 -> Some(NotFoundError(f.message, f.details))
      [] status \in {400, 422} -> Some(ValidationError(f.message, f.details))
      [] status >= 500 -> Some(ServerError(f.message, f.details))
      [] OTHER -> Some(APIError(f.message, status, f.error_type, f.details))

\* a response arrives and _handle_response_error(response) is called
HandleResponse(response) ==
    /\ call' = [op |-> "_handle_response_error", response |-> response]
    /\ error' = RaisedFor(response)
    /\ result' = IF error' = None THEN "ok" ELSE error'[1].type
    /\ UNCHANGED <<now, config, config_file, loaded, credentials_file, suspended, net, static_token,
                   issued, pc, wire, pre, streamVars, workerVars>>

ResponseNext ==
    \E status_code \in ResponseStatuses, body \in Bodies :
        HandleResponse(Response(status_code, body))

ResponseSpec == Init /\ [][ResponseNext]_vars

Handled == call.op = "_handle_response_error"

\* C23: _handle_response_error raises nothing on a success status and exactly
\* one error on any other: AuthenticationError on 401, NotFoundError on 404,
\* ValidationError on 400 and 422, ServerError on every status from 500 up,
\* the generic APIError on every other status.
C23_StatusMapping ==
    Handled =>
        LET s == call.response.status_code IN
        /\ (s \in 200..299 <=> error = None)
        /\ (s = 401 <=> result = "AuthenticationError")
        /\ (s = 404 <=> result = "NotFoundError")
        /\ (s \in {400, 422} <=> result = "ValidationError")
        /\ (s >= 500 <=> result = "ServerError")
        /\ (s \notin 200..299 /\ s \notin {400, 401, 404, 422} /\ s < 500 <=> result = "APIError")

C23_Witness ==
    /\ Handled
    /\ call.response.status_code = 429
    /\ call.response.body.kind = "object"
    /\ result = "APIError"

\* C24 (as stated): the error raised for a non-success status s carries
\* status_code = s and the category the server supplied (the generic one
\* when the body does not parse).
C24_StatusCarried ==
    Handled /\ error # None =>
        /\ error[1].status_code = Some(call.response.status_code)
        /\ error[1].error_type = Some(ErrorFields(call.response).error_type)

\* what does hold: the generic APIError carries the status and the category
C24_GenericCarriesStatus ==
    Handled /\ error # None /\ error[1].type = "APIError" =>
        /\ error[1].status_code = Some(call.response.status_code)
        /\ error[1].error_type = Some(ErrorFields(call.response).error_type)

(* ---------------- request(): a session resumed from disk --------------- *)

\* the session a previous run left in config.json: a bearer token that is
\* still valid for a while
ResumedConfig == SetToken(DefaultConfig, 0, 1, "alice", "alice")

\* HTTPClient.__init__ over that session file, with and without the
\* long-lived credential
ResumedInit ==
    /\ now = 0
    /\ config = ResumedConfig
    /\ config_file = FileAfterSave(ResumedConfig)
    /\ loaded = TRUE
    /\ credentials_file = NoCredentials
    /\ error = None
    /\ net = NoNet
    /\ suspended = IdleStream
    /\ static_token \in StaticTokens \cup {""}
    /\ issued = 0
    /\ pc = "idle"
    /\ call = NoCall
    /\ wire = <<>>
    /\ result = "pending"
    /\ pre = Snapshot
    /\ spc = "idle"
    /\ frames = <<>>
    /\ pending = 0
    /\ yielded = <<>>
    /\ send = "none"
    /\ conn = "none"
    /\ NoWorker

ResumedSpec == ResumedInit /\ [][Next]_vars

\* the network log holds at most one entry, a request
SentAtMostOnce ==
    /\ Len(wire) <= 1
    /\ \A i \in 1..Len(wire) : wire[i].kind = "request"

\* a 401 answer to the only send ended the call with the error
Surfaced401 ==
    pc = "done" /\ Len(wire) = 1 /\ wire[1].status = 401 => result = "AuthenticationError"

\* C25: a request with require_auth=False checks and refreshes nothing,
\* carries no Authorization header and is sent exactly once, a 401 answer
\* being raised without exchange or re-send; a request with require_auth=True
\* and no cached static token is likewise never followed by an exchange or a
\* re-send, and its 401 is raised.
C25_NoAuthNoRetry ==
    /\ call.op = "request" /\ ~call.require_auth =>
          /\ SentAtMostOnce
          /\ \A i \in 1..Len(wire) : wire[i].auth = None
          /\ pc # "ensure"
          /\ (pc = "done" => Len(wire) = 1)
          /\ Surfaced401
          /\ Snapshot = pre
    /\ call.op = "request" /\ call.require_auth /\ static_token = "" =>
          /\ SentAtMostOnce
          /\ Surfaced401
          /\ Snapshot = pre

C25_Witness ==
    /\ call.op = "request" /\ ~call.require_auth
    /\ static_token # ""
    /\ ~IsTokenValid(config, now)
    /\ pc = "done"
    /\ Len(wire) = 1 /\ wire[1].status = 401
    /\ result = "AuthenticationError"

\* the second case of C25 happens: a 401 to an authenticated request without
\* a cached static token
C25_NoCredential401 ==
    /\ call.op = "request" /\ call.require_auth
    /\ static_token = ""
    /\ pc = "done"
    /\ Len(wire) = 1 /\ wire[1].status = 401 /\ wire[1].auth # None
    /\ result = "AuthenticationError"

(* ------------------- client.py: AIZoomDocClient.delete_chat ------------ *)

\* delete_chat is between the end of its request and its own return
Returning == pc = "done" /\ call.op = "delete_chat" /\ result \notin {"True", "False"}

\* AIZoomDocClient.delete_chat(chat_id), entry: self._http.delete(...), that
\* is request("DELETE", path) with require_auth=True
ClientDeleteChat ==
    /\ ~Running /\ ~Returning
    /\ call' = [op |-> "delete_chat", method |-> "DELETE", require_auth |-> TRUE,
                path_exists |-> TRUE]
    /\ wire' = <<>>
    /\ result' = "pending"
    /\ pre' = Snapshot
    /\ pc' = "ensure"
    /\ UNCHANGED <<loaded, otherVars, sessVars, streamVars, workerVars>>

\* delete_chat taking every response that raised nothing for a scheduled
\* deletion
DeleteChatResult_AnySuccess(outcome, status) ==
    IF outcome = "ok" THEN "True" ELSE "False"

\* delete_chat: return response.status_code == 202, and
\* except Exception: logger.error(...); return False
DeleteChatResult(outcome, status) ==
    IF outcome = "ok" /\ status = 202 THEN "True" ELSE "False"

\* AIZoomDocClient.delete_chat returns
DeleteChatReturn ==
    /\ Returning
    /\ result' = DeleteChatResult(result, IF wire = <<>> THEN 0 ELSE wire[Len(wire)].status)
    /\ UNCHANGED <<loaded, otherVars, sessVars, pc, call, wire, pre, streamVars, workerVars>>

ClientNext ==
    \/ ~Returning /\ \E tokArg \in StaticTokens \cup {""} : Authenticate(tokArg)
    \/ ClientDeleteChat
    \/ EnsureAuthenticated
    \/ Send
    \/ Reauth
    \/ DeleteChatReturn
    \/ Tick

ClientSpec == Init /\ [][ClientNext]_vars

\* the last network call of the running call was a send that got no response
SendFailed ==
    /\ wire # <<>>
    /\ wire[Len(wire)].kind = "request"
    /\ wire[Len(wire)].status = TransportFailure

\* C26 (as stated): a transport failure of a send in request() is followed by
\* no re-send and no exchange, and the public operation that issued the
\* request ends with that failure.
C26_TransportFailurePropagates ==
    /\ \A i \in 1..Len(wire) :
          wire[i].kind = "request" /\ wire[i].status = TransportFailure => i = Len(wire)
    /\ SendFailed /\ pc = "done" /\ ~Returning => result = "TransportError"

\* what does hold: request() itself sends nothing after the failure, ends
\* with it, and the failing send leaves the session as it was
C26_RequestPropagates ==
    /\ \A i \in 1..Len(wire) :
          wire[i].kind = "request" /\ wire[i].status = TransportFailure => i = Len(wire)
    /\ SendFailed /\ pc = "done" /\ call.op = "request" => result = "TransportError"

C26_FailingSendKeepsSession ==
    [][Send /\ result' = "TransportError" =>
         config' = config /\ config_file' = config_file /\ static_token' = static_token]_vars

(* ------- client.py: AIZoomDocClient.send_message / send_message_sync --- *)

SendOps == {"send_message", "send_message_sync"}

\* send_message (the generator body, started by the first next()) and
\* send_message_sync, entry: self._http.post("/chats/{id}/messages", json=data),
\* that is request("POST", path) with require_auth=True
ClientSendMessage(op) ==
    /\ ~Running
    /\ spc \in {"idle", "finished"}
    /\ call.op \in SendOps /\ call.method = "POST" => result \notin {"ok", "pending"}
    /\ call' = [op |-> op, method |-> "POST", require_auth |-> TRUE, path_exists |-> TRUE]
    /\ wire' = <<>>
    /\ result' = "pending"
    /\ pre' = Snapshot
    /\ pc' = "ensure"
    /\ spc' = "idle" /\ frames' = <<>> /\ pending' = 0 /\ yielded' = <<>>
    /\ send' = "none" /\ conn' = "none"
    /\ UNCHANGED <<loaded, otherVars, sessVars, workerVars>>

\* variant: the stream is started whatever the POST ended with
MessageStream_Unchecked(n) ==
    /\ call.op \in SendOps /\ call.method = "POST"
    /\ pc = "done"
    /\ StreamOpen(n)

\* the statement after the POST has returned: self._http.stream_sse(
\* "/chats/{id}/stream", ...), started by `yield from` or by the for loop
MessageStream(n) ==
    /\ call.op \in SendOps /\ call.method = "POST"
    /\ pc = "done" /\ result = "ok"
    /\ StreamOpen(n)

\* ways stream_sse ends without an exception
StreamEndings == {"terminal", "end_of_stream", "closed"}

\* send_message_sync, the loop body: elif event.event == "error": raise
SyncRaises(events) == events # <<>> /\ events[Len(events)].event = "error"

\* the stream has ended. An exception of stream_sse leaves both operations;
\* send_message then returns; send_message_sync raises AIZoomDocError on an
\* error event and otherwise calls self.get_chat_history(chat_id), a GET
MessageStreamEnds ==
    /\ call.op \in SendOps /\ call.method = "POST"
    /\ pc = "done" /\ result = "ok"
    /\ spc = "finished"
    /\ CASE send \notin StreamEndings ->
              /\ result' = send
              /\ UNCHANGED <<pc, call, wire>>
         [] send \in StreamEndings /\ call.op = "send_message" ->
              /\ result' = "returned"
              /\ UNCHANGED <<pc, call, wire>>
         [] send \in StreamEndings /\ call.op = "send_message_sync" /\ SyncRaises(yielded) ->
              /\ result' = "AIZoomDocError"
              /\ UNCHANGED <<pc, call, wire>>
         [] OTHER ->
              /\ result' = "pending"
              /\ call' = [call EXCEPT !.method = "GET"]
              /\ pc' = "ensure"
              /\ wire' = <<>>
    /\ UNCHANGED <<loaded, otherVars, sessVars, pre, streamVars, workerVars>>

MessageNext ==
    \/ \E op \in SendOps : ClientSendMessage(op)
    \/ EnsureAuthenticated
    \/ Send
    \/ Reauth
    \/ \E n \in 0..MaxFrames : MessageStream(n)
    \/ StreamRead
    \/ StreamTransportError
    \/ StreamResume
    \/ call.op = "send_message" /\ StreamClose
    \/ MessageStreamEnds

MessageSpec == StreamInit /\ [][MessageNext]_vars

(* -------------------- send_message: properties ------------------------- *)

InMessage == call.op \in SendOps

\* the sends of the running call that the server accepted
Accepted == {i \in 1..Len(wire) : wire[i].kind = "request" /\ IsSuccess(wire[i].status)}

\* the message has been submitted: the POST was accepted, once, and it is the
\* last network call made
Submitted ==
    /\ InMessage /\ call.method = "POST"
    /\ pc = "done" /\ result = "ok"
    /\ Accepted = {Len(wire)}
    /\ wire[Len(wire)].method = "POST"

\* the submission ended with an error
SubmissionFailed ==
    /\ InMessage /\ call.method = "POST"
    /\ spc = "idle"
    /\ pc = "done" /\ result # "ok"

\* C27: send_message and send_message_sync open the stream only after the
\* message has been submitted, the accepted POST being the one network call
\* just before; no POST of the message follows the opening; and after a
\* submission that failed the stream is not opened and nothing is yielded.
C27_SubmitThenStream ==
    /\ [](InMessage /\ spc # "idle" =>
            \A i \in 1..Len(wire) : wire[i].kind = "request" => wire[i].method = "GET")
    /\ [][spc = "idle" /\ spc' # "idle" => Submitted]_vars
    /\ [][SubmissionFailed => spc' = "idle" /\ conn' = "none" /\ yielded' = <<>>]_vars
    /\ [](InMessage /\ call.method = "POST" /\ result # "ok" /\ spc = "idle" =>
            conn = "none" /\ yielded = <<>>)

\* a message was submitted and its stream has yielded an event
C27_Witness ==
    /\ call.op = "send_message_sync" /\ call.method = "POST"
    /\ conn = "open" /\ yielded # <<>>
    /\ wire # <<>> /\ wire[Len(wire)].method = "GET" /\ wire[Len(wire)].status = 200

\* a submission failed and nothing was streamed
C27_FailedSubmission ==
    /\ SubmissionFailed /\ result = "ServerError"
    /\ wire # <<>> /\ wire[Len(wire)].method = "POST"

(* --------------- stream_sse: two streams on one client ----------------- *)

\* frames that arrive on each of two simultaneous streams
MaxConcurrentFrames == 1

\* the local state of the stream_sse generator that is running now
CurrentStream ==
    [spc |-> spc, frames |-> frames, pending |-> pending, yielded |-> yielded, send |-> send,
     conn |-> conn, wire |-> wire]

\* variant: the two generators append to one list of events
Switch_SharedEvents ==
    /\ suspended # CurrentStream
    /\ suspended' = CurrentStream
    /\ spc' = suspended.spc /\ frames' = suspended.frames /\ pending' = suspended.pending
    /\ yielded' = yielded /\ send' = suspended.send /\ conn' = suspended.conn
    /\ wire' = suspended.wire
    /\ UNCHANGED <<now, config, config_file, loaded, credentials_file, error, net, static_token,
                   issued, pc, call, result, pre, workerVars>>

\* the scheduler passes control from one stream's thread to the other's:
\* each stream_sse generator keeps its own locals (headers, client,
\* event_source), the session is the client's
Switch ==
    /\ suspended # CurrentStream
    /\ suspended' = CurrentStream
    /\ spc' = suspended.spc /\ frames' = suspended.frames /\ pending' = suspended.pending
    /\ yielded' = suspended.yielded /\ send' = suspended.send /\ conn' = suspended.conn
    /\ wire' = suspended.wire
    /\ UNCHANGED <<now, config, config_file, loaded, credentials_file, error, net, static_token,
                   issued, pc, call, result, pre, workerVars>>

ConcurrentNext ==
    \/ \E n \in 0..MaxConcurrentFrames : StreamOpen(n)
    \/ StreamRead
    \/ StreamTransportError
    \/ StreamResume
    \/ StreamClose
    \/ Switch

ConcurrentSpec == StreamInit /\ [][ConcurrentNext]_vars

(* -------------------- two streams: properties -------------------------- *)

\* a step of the running stream: opening, reading, resuming, closing
StreamStep == streamVars' # streamVars /\ suspended' = suspended

SessionKept ==
    /\ config' = config /\ config_file' = config_file
    /\ static_token' = static_token /\ issued' = issued

\* each stream yields the events of its own frames, whatever the interleaving
EachStreamItsOwn ==
    /\ yielded = Expected(frames)
    /\ suspended.yielded = Expected(suspended.frames)

\* the steps of one stream, the exchange of its opening included, leave the
\* other stream, and the log (with the header) of a stream that is open, as
\* they were
HeaderFixedAtOpen ==
    /\ (suspended' # suspended => suspended' = CurrentStream)
    /\ (suspended' = suspended /\ conn = "open" => wire' = wire)

\* C28 (as stated): two simultaneous streams do not interact, a stream keeps
\* the header it read when it was opened, and neither opening nor running a
\* stream writes the shared session.
C28_StreamsShareOnlyHeader ==
    /\ []EachStreamItsOwn
    /\ [][HeaderFixedAtOpen]_vars
    /\ [][StreamStep => SessionKept]_vars

\* C28 (amended): as above, except that opening a stream runs
\* _ensure_authenticated first, which writes the session when the bearer
\* token is not valid and a static token is cached; a stream that is past
\* its opening writes nothing shared.
C28_OnlyPreflightWrites ==
    /\ []EachStreamItsOwn
    /\ [][HeaderFixedAtOpen]_vars
    /\ [][StreamStep /\ ~(spc = "idle" /\ EnsureBranch = "exchange") => SessionKept]_vars

\* both streams have yielded an event of their own and the bearer token has
\* been replaced since the running one was opened
C28_Witness ==
    /\ spc = "yielded" /\ suspended.spc = "yielded"
    /\ yielded # suspended.yielded
    /\ wire[Len(wire)].kind = "request"
    /\ wire[Len(wire)].auth # GetAuthHeaders(config)

(* ------------------ store mutators: the cached session ----------------- *)

\* a mutator of one field of the session runs and its write fails
FieldWriteFails ==
    /\ GetConfig.raised = ""
    /\ \E disk \in FailingDisk :
          \/ StoreSetToken(disk)
          \/ StoreClearToken(disk)
          \/ \E url \in Urls : StoreSetServerUrl(url, disk)
          \/ \E chat_id \in {None, Some("chat-1")} : StoreSetActiveChat(chat_id, disk)
          \/ \E path \in {None, Some("/data")} : StoreSetDataDir(path, disk)

\* C31 (as stated): when the write of set_token, clear_token,
\* set_active_chat, set_server_url or set_data_dir fails, the session that
\* get_config() returns afterwards is the one it returned before the call.
C31_FailedWriteKeepsSession ==
    [][FieldWriteFails => config' = GetConfig.cfg]_vars

(* ------------- http_client.py: logout and the session's life ----------- *)

\* ConfigManager.clear_all: a new record keeping server_url and data_dir
ClearedAll(cfg) ==
    [server_url |-> cfg.server_url, token_data |-> None, active_chat_id |-> None,
     data_dir |-> cfg.data_dir]

\* HTTPClient.logout: self._static_token is not touched
CredentialAfterLogout(st) == st

\* HTTPClient.logout(): POST /auth/logout with require_auth=False, sent once
\* and its outcome ignored, then config_manager.clear_all()
Logout ==
    /\ ~Running
    /\ call' = [op |-> "logout", method |-> "POST", require_auth |-> FALSE, path_exists |-> TRUE]
    /\ \E status \in Replies : wire' = <<Request("POST", None, status)>>
    /\ config' = ClearedAll(config)
    /\ config_file' = FileAfterSave(config')
    /\ static_token' = CredentialAfterLogout(static_token)
    /\ result' = "ok"
    /\ pre' = Snapshot
    /\ pc' = "done"
    /\ UNCHANGED <<loaded, otherVars, now, issued, streamVars, workerVars>>

\* a call of the session store made by the client between network calls
StoreEffect(op, new) ==
    /\ ~Running
    /\ new # config
    /\ call' = [op |-> op, method |-> "", require_auth |-> FALSE, path_exists |-> TRUE]
    /\ config' = new
    /\ config_file' = FileAfterSave(config')
    /\ wire' = <<>>
    /\ result' = "ok"
    /\ pre' = Snapshot
    /\ pc' = "done"
    /\ UNCHANGED <<loaded, otherVars, now, static_token, issued, streamVars, workerVars>>

\* HTTPClient.clear_tokens(): config_manager.clear_token()
ClearTokens == StoreEffect("clear_tokens", [config EXCEPT !.token_data = None])

\* AIZoomDocClient.use_chat, its last step: config_manager.set_active_chat(chat.id)
UseChat == StoreEffect("set_active_chat", [config EXCEPT !.active_chat_id = Some("chat-1")])

\* HTTPClient.__init__(server_url=...): config_manager.set_server_url(server_url)
SetServerUrl(url) == StoreEffect("set_server_url", [config EXCEPT !.server_url = RStrip(url)])

LifecycleNext ==
    \/ \E tokArg \in StaticTokens \cup {""} : Authenticate(tokArg)
    \/ \E require_auth \in BOOLEAN : RequestBegin("GET", require_auth)
    \/ EnsureAuthenticated
    \/ Send
    \/ Reauth
    \/ Logout
    \/ ClearTokens
    \/ UseChat
    \/ SetServerUrl("http://localhost:8000/")
    \/ ~Running /\ StreamOpen(0)
    \/ StreamRead

LifecycleSpec == Init /\ [][LifecycleNext]_vars

\* the bearer record built from the success response r to an exchange, the
\* k-th token issued, received at time t
BearerFrom(r, k, t) ==
    TokenData(k, ExpiresAt(t, r.expires_in), UserOf(r.cred), UserOf(r.cred))

\* the success responses to an exchange in a network log
Issues(w) == {i \in 1..Len(w) : w[i].kind = "exchange" /\ w[i].status = 200}

\* C32: the stored bearer is absent or built, all four fields together, from
\* one successful exchange response; a step that changes it either removes
\* it or replaces it by the record of the response just received, and no
\* step changes some of its fields only.
C32_BearerWholesale ==
    /\ [](config.token_data # None =>
            /\ config.token_data[1].access_token \in 1..issued
            /\ config.token_data[1].user_id = config.token_data[1].username)
    /\ [][config'.token_data # config.token_data =>
            \/ config'.token_data = None
            \/ /\ issued' = issued + 1
               /\ \E i \in Issues(wire') :
                     config'.token_data = Some(BearerFrom(wire'[i], issued', now))]_vars

\* a second exchange, with another credential, replaced the bearer of the
\* first: token, expiry and user all come from the second response
C32_Witness ==
    /\ call.op = "authenticate" /\ result = "ok"
    /\ pre.config.token_data # None
    /\ pre.config.token_data[1].user_id = "alice"
    /\ config.token_data # None
    /\ config.token_data[1].access_token = 2
    /\ config.token_data[1].user_id = "bob"

\* C38 (as stated): when logout() has returned the client is not
\* authenticated, the active conversation is cleared, and an authenticated
\* request or stream that follows fails with TokenExpiredError: its
\* _ensure_authenticated makes no exchange.
C38_LogoutSticks ==
    [][Logout =>
         /\ ~IsTokenValid(config', now')
         /\ config'.active_chat_id = None
         /\ EnsureBranch' = "expired"]_vars

\* what does hold: the bearer and the active conversation are cleared, and
\* without a cached static token the next authenticated call raises
\* TokenExpiredError
C38_LogoutClears ==
    [][Logout =>
         /\ config'.token_data = None
         /\ config'.active_chat_id = None
         /\ (static_token = "" => EnsureBranch' = "expired")]_vars

(* --------------------- StreamWorker: attachments ----------------------- *)

\* the calls of upload_file_for_llm made so far, and the messages submitted
UploadCalls == SelectSeq(wlog, LAMBDA e : e[1] = "upload_file_for_llm")
Submissions == SelectSeq(wlog, LAMBDA e : e[1] = "post_message")

\* how many times a signal has been emitted
Emissions(sig) == Cardinality({i \in 1..Len(signals) : signals[i] = sig})

\* the files whose upload succeeded, in list order
RECURSIVE UploadedUpTo(_)
UploadedUpTo(k) ==
    IF k = 0 THEN <<>>
    ELSE UploadedUpTo(k - 1) \o
         (IF Emissions(Signal("file_uploaded", <<k>>)) > 0 THEN <<k>> ELSE <<>>)

\* the upload loop has been left
UploadsOver == wpc \in {"submit", "events", "after_loop"} \/ Submissions # <<>>

\* C33: with no stop requested, every file of local_files gets exactly one
\* upload attempt, in list order, whether or not earlier files failed; a
\* failed upload is reported by exactly one error_occurred signal and a
\* successful one by none; and the message submitted carries exactly the
\* files uploaded successfully, in order.
C33_BestEffortUploads ==
    ~stop_requested =>
        /\ UploadCalls = [i \in 1..(fidx - 1) |-> <<"upload_file_for_llm", i>>]
        /\ (UploadsOver => fidx = nfiles + 1)
        /\ \A i \in 1..(fidx - 1) :
              Emissions(Signal("file_uploaded", <<i>>)) +
              Emissions(Signal("error_occurred", <<"upload", i>>)) = 1
        /\ \A j \in 1..Len(Submissions) : Submissions[j][2] = UploadedUpTo(nfiles)
        /\ Len(Submissions) <= 1

\* the first of two files failed, the second was uploaded, and the message
\* was submitted with the second only
C33_Witness ==
    /\ ~stop_requested
    /\ nfiles = 2
    /\ Emissions(Signal("error_occurred", <<"upload", 1>>)) = 1
    /\ Submissions = <<(<<"post_message", <<2>>>>)>>

(* ---------------------- consumers: the answer text --------------------- *)

\* "".join(parts)
RECURSIVE Joined(_)
Joined(parts) == IF parts = <<>> THEN "" ELSE Head(parts) \o Joined(Tail(parts))

\* the argument of every emission of the signal `name`, in order
RECURSIVE ArgsOf(_, _)
ArgsOf(sigs, name) ==
    IF sigs = <<>> THEN <<>>
    ELSE (IF Head(sigs).name = name THEN <<Head(sigs).args>> ELSE <<>>) \o ArgsOf(Tail(sigs), name)

\* the events the worker has handled: it emits sse_event(event, data) for each
HandledEvents == ArgsOf(signals, "sse_event")

\* the value of key k in every handled event of the kind e, in order
RECURSIVE ValuesOf(_, _, _)
ValuesOf(evs, e, k) ==
    IF evs = <<>> THEN <<>>
    ELSE (IF Head(evs)[1] = e THEN <<Get(Head(evs)[2], k, "")>> ELSE <<>>) \o
         ValuesOf(Tail(evs), e, k)

\* the text the worker has delivered through token_received
RECURSIVE FirstArgs(_)
FirstArgs(args) == IF args = <<>> THEN <<>> ELSE <<Head(args)[1]>> \o FirstArgs(Tail(args))
Delivered == Joined(FirstArgs(ArgsOf(signals, "token_received")))

\* send_message_sync, the loop body: full_response after the events evs
RECURSIVE FullResponse(_)
FullResponse(evs) ==
    IF evs = <<>> THEN ""
    ELSE LET before == FullResponse(SubSeq(evs, 1, Len(evs) - 1))
             last == evs[Len(evs)]
         IN CASE last.event = "llm_token" -> before \o Get(last.data, "token", "")
              [] last.event = "llm_final" -> Get(last.data, "content", before)
              [] OTHER -> before

\* the answer texts one delivery path alone would give
TokensOnly(tokens, finals) == Joined(tokens)
FinalOnly(tokens, finals) == {finals[i] : i \in 1..Len(finals)}

\* C34 (as stated): whatever events arrive, the text delivered through
\* token_received, and the full_response of send_message_sync on the same
\* events, is the concatenation of the llm_token tokens or the content of an
\* llm_final event, never both one after the other.
C34_NoDuplicateAnswer ==
    LET tokens == ValuesOf(HandledEvents, "llm_token", "token")
        finals == ValuesOf(HandledEvents, "llm_final", "content")
        ytokens == ValuesOf([i \in 1..Len(yielded) |-> <<yielded[i].event, yielded[i].data>>],
                            "llm_token", "token")
        yfinals == ValuesOf([i \in 1..Len(yielded) |-> <<yielded[i].event, yielded[i].data>>],
                            "llm_final", "content")
    IN /\ Delivered = TokensOnly(tokens, finals) \/ Delivered \in FinalOnly(tokens, finals)
       /\ FullResponse(yielded) = TokensOnly(ytokens, yfinals)
            \/ FullResponse(yielded) \in FinalOnly(ytokens, yfinals)

\* what does hold: while no llm_final has been followed by an llm_token and
\* at most one llm_final has arrived, the text delivered is the tokens' or the
\* final content
C34_TokensThenFinal ==
    LET tokens == ValuesOf(HandledEvents, "llm_token", "token")
        finals == ValuesOf(HandledEvents, "llm_final", "content")
        kinds == [i \in 1..Len(HandledEvents) |-> HandledEvents[i][1]]
    IN (/\ Len(finals) <= 1
        /\ \A i, j \in 1..Len(kinds) : kinds[i] = "llm_final" /\ kinds[j] = "llm_token" => j < i)
       => Delivered = TokensOnly(tokens, finals) \/ Delivered \in FinalOnly(tokens, finals)

(* ------------------- the credential file: properties ------------------- *)

SavesStaticToken ==
    \E disk \in DiskOutcomes : StoreSaveStaticToken("st-alice", "http://localhost:8000", disk)

ClearsStaticToken == \E disk \in {"ok", "open_fails"} : StoreClearStaticToken(disk)

\* another store operation runs: set_data_dir, set_server_url, set_token or
\* clear_all
OtherStoreOperation ==
    \E disk \in DiskOutcomes :
        \/ StoreSetToken(disk)
        \/ StoreClearAll(disk)
        \/ \E url \in Urls : StoreSetServerUrl(url, disk)
        \/ \E path \in {None, Some("/data")} : StoreSetDataDir(path, disk)

\* C35 (as stated): once save_static_token(t, s) has returned,
\* load_static_token() returns {t, s}; the other store operations do not
\* change what it returns; and once clear_static_token() has returned it
\* returns None and no credentials file is left.
C35_CredentialDurable ==
    /\ [][SavesStaticToken =>
            LoadStaticToken' = Some(Credentials("st-alice", "http://localhost:8000"))]_vars
    /\ [][OtherStoreOperation => LoadStaticToken' = LoadStaticToken]_vars
    /\ [][ClearsStaticToken =>
            LoadStaticToken' = None /\ credentials_file' = NoCredentials]_vars

\* the divergence by the data directory alone: with a disk that never fails
\* and a readable session, set_data_dir changes what load_static_token returns
C35_DataDirKeepsCredential ==
    [][StoreSetDataDir(Some("/data"), "ok") /\ GetConfig.raised = ""
         => LoadStaticToken' = LoadStaticToken]_vars

\* what does hold: a save whose write succeeded is read back
C35_SavedIsLoaded ==
    [][StoreSaveStaticToken("st-alice", "http://localhost:8000", "ok") /\ GetConfig.raised = ""
         => LoadStaticToken' = Some(Credentials("st-alice", "http://localhost:8000"))]_vars

(* ------------------- delete_chat: the value returned ------------------- *)

\* the DELETE requests the running call has sent
DeletesAt == {i \in DOMAIN wire : wire[i].kind = "request" /\ wire[i].method = "DELETE"}

\* the status of the server's final response to DELETE /chats/{id}, 0 if the
\* request was never answered (never sent, or a transport failure)
FinalDeleteStatus ==
    IF DeletesAt = {} THEN 0
    ELSE wire[CHOOSE i \in DeletesAt : \A j \in DeletesAt : j <= i].status

\* C36: delete_chat() returns True exactly when the server's final response to
\* the DELETE has status 202, False for every other success status, and False,
\* without raising, for every failure of the request (API error, transport
\* error, TokenExpiredError)
C36_DeleteChatReturns ==
    [][DeleteChatReturn =>
          /\ result' \in {"True", "False"}
          /\ (result' = "True" <=> FinalDeleteStatus = StatusAccepted)
          /\ (result # "ok" => result' = "False")
          /\ (IsSuccess(FinalDeleteStatus) /\ FinalDeleteStatus # StatusAccepted => result' = "False")]_vars

\* delete_chat has returned True after a 202
C36_Witness ==
    /\ call.op = "delete_chat" /\ pc = "done"
    /\ result = "True"
    /\ FinalDeleteStatus = StatusAccepted

\* delete_chat has returned False after a failure of each kind, and after a
\* success status other than 202
C36_FalseCases ==
    /\ call.op = "delete_chat" /\ pc = "done" /\ result = "False"
    /\ \/ FinalDeleteStatus = 200
       \/ FinalDeleteStatus = 0 /\ wire = <<>>

(* ------------------- StreamWorker: stop before submission -------------- *)

\* stop() was requested before run has started or at the latest while it was
\* at the top of the upload loop for the first file: there are files to
\* upload and, with the flag set, none has been attempted (a run that finds
\* the flag clear attempts the first file)
StoppedBeforeSubmit == stop_requested /\ nfiles > 0 /\ UploadCalls = <<>>

\* C39: when stop() is requested before the message has been submitted (before
\* run starts or during the upload phase), the worker uploads no further file,
\* does not submit the message (no POST /chats/{id}/messages) and opens no
\* stream
C39_StopBeforeSubmit ==
    /\ [][stop_requested => UploadCalls' = UploadCalls]_vars
    /\ [](StoppedBeforeSubmit => Submissions = <<>> /\ spc = "idle")

\* the upload part alone: no file is uploaded once the stop flag is set
C39_NoFurtherUpload ==
    [][stop_requested => UploadCalls' = UploadCalls]_vars

\* the submission alone: a run that was stopped before its first upload does
\* not submit the message
C39_NoSubmission == StoppedBeforeSubmit => Submissions = <<>>

(* ------------------- StreamWorker: the final signal -------------------- *)

\* run has ended by an exception, caught by its outer except: the chat id or
\* a document id was no UUID or the POST of the message raised (no stream was
\* ever opened), or the generator of the stream raised instead of returning
RunRaised ==
    /\ wpc = "done"
    /\ \/ spc = "idle"
       \/ spc = "finished" /\ send \notin {"end_of_stream", "terminal", "closed"}

\* the signal emitted last
LastSignal == signals[Len(signals)]

\* C40: every run whose stream terminates ends with exactly one final signal
\* after which nothing is emitted: completed if and only if the run did not
\* end by an exception (failed uploads and server error events are none), and
\* error_occurred, with no completed at all, if and only if it ended by an
\* exception; completed is never emitted more than once
C40_OneFinalSignal ==
    /\ [](wpc = "done" =>
            /\ signals # <<>>
            /\ IF RunRaised
               THEN /\ LastSignal.name = "error_occurred"
                    /\ Emissions(Signal("completed", <<>>)) = 0
               ELSE /\ LastSignal = Signal("completed", <<>>)
                    /\ Emissions(Signal("completed", <<>>)) = 1)
    /\ [](Emissions(Signal("completed", <<>>)) <= 1)
    /\ [][wpc = "done" => signals' = signals]_vars

\* a run ended with completed although an upload had failed and the server
\* had sent an error event
C40_Witness ==
    /\ wpc = "done" /\ ~RunRaised
    /\ LastSignal = Signal("completed", <<>>)
    /\ Emissions(Signal("error_occurred", <<"upload", 1>>)) = 1
    /\ \E i \in DOMAIN signals :
          /\ signals[i].name = "error_occurred" /\ Len(signals[i].args) = 1
          /\ i > 1 /\ signals[i - 1].name = "sse_event"

\* a run ended by an exception of the stream after events had been delivered
C40_RaisedWitness ==
    /\ RunRaised /\ yielded # <<>>
    /\ LastSignal.name = "error_occurred"

(* --------------- HTTPClient: the address a bearer is sent to ----------- *)

\* the server addresses a client may be pointed at
Servers == {DEFAULT_SERVER_URL, "http://localhost:8000"}

\* the state a call of the client works on: the session record, the server's
\* token counter, and the address record
Local == [cfg |-> config, issued |-> issued, base_url |-> net.base_url,
          issuer |-> net.issuer, sent |-> {}]

\* HTTPClient._get_sync_client: the client is built on first use with the
\* server_url of that moment as base_url, and kept
GetSyncClient(s) ==
    IF s.base_url = None THEN [s EXCEPT !.base_url = Some(s.cfg.server_url)] ELSE s

\* a request or stream sent to address `to` with the headers of
\* _get_auth_headers
Sent(s, to) ==
    IF GetAuthHeaders(s.cfg) = None THEN s
    ELSE [s EXCEPT !.sent = @ \cup {<<to, GetAuthHeaders(s.cfg)[1]>>}]

\* HTTPClient.authenticate(token) with a non-empty token: POST /auth/exchange
\* through the sync client; on a success reply the bearer is replaced by the
\* token that address has issued
Exchanged(s, token, r) ==
    LET c == GetSyncClient(s) IN
    IF Outcome(r.status) = "ok"
    THEN [c EXCEPT !.cfg = SetToken(c.cfg, c.issued + 1, ExpiresAt(now, r.expires_in),
                                    UserOf(token), UserOf(token)),
                   !.issued = c.issued + 1,
                   !.issuer = Append(c.issuer, c.base_url[1])]
    ELSE c

\* HTTPClient._ensure_authenticated: the branch taken on the state s
EnsureBranchOn(s) ==
    IF IsTokenValid(s.cfg, now) THEN "valid"
    ELSE IF static_token # "" THEN "exchange"
    ELSE "expired"

\* HTTPClient._ensure_authenticated: the state after it, and whether it raised
Ensured(s, r) ==
    CASE EnsureBranchOn(s) = "valid" -> [st |-> s, raised |-> FALSE]
      [] EnsureBranchOn(s) = "exchange" ->
            [st |-> Exchanged(s, static_token, r), raised |-> Outcome(r.status) # "ok"]
      [] OTHER -> [st |-> s, raised |-> TRUE]

\* the replies to an exchange: a success declaring a lifetime, a rejection, no
\* response
AnyExchangeReply ==
    [status : {200}, expires_in : ExpiresIn] \cup [status : {401, TransportFailure}, expires_in : {0}]

\* the replies to a request: success, the 401 that starts the
\* re-authentication, no response
AnyRequestReply == {200, 401, TransportFailure}

\* the call's effects are stored: the session and its file, the token counter
\* and the address record
Committed(s) ==
    /\ s.issued <= MaxIssued
    /\ config' = s.cfg
    /\ config_file' = IF s.cfg # config THEN FileAfterSave(s.cfg) ELSE config_file
    /\ issued' = s.issued
    /\ net' = [base_url |-> s.base_url, issuer |-> s.issuer, sent |-> s.sent]

\* HTTPClient(server_url=..., static_token=...) over the process-wide
\* ConfigManager of get_config_manager(): a given address is stored in the
\* shared session, the bearer it holds is kept; the new object has no
\* httpx client yet
NewClient(server_url, token) ==
    /\ config' = IF server_url = None THEN config
                 ELSE [config EXCEPT !.server_url = RStrip(server_url[1])]
    /\ config_file' = IF server_url = None THEN config_file ELSE FileAfterSave(config')
    /\ static_token' = token
    /\ net' = [net EXCEPT !.base_url = None, !.sent = {}]
    /\ UNCHANGED <<now, issued, loaded, credentials_file, error, suspended, httpVars,
                   streamVars, workerVars>>

\* ConfigManager.set_server_url(url) on the shared session
AddressSetServerUrl(url) ==
    /\ config' = [config EXCEPT !.server_url = RStrip(url)]
    /\ config_file' = FileAfterSave(config')
    /\ net' = [net EXCEPT !.sent = {}]
    /\ UNCHANGED <<now, issued, static_token, loaded, credentials_file, error, suspended,
                   httpVars, streamVars, workerVars>>

\* HTTPClient.authenticate(static_token), the whole call
AddressAuthenticate(tokArg) ==
    /\ static_token' = CredentialAfter(AuthToken(tokArg))
    /\ IF AuthToken(tokArg) = ""
       THEN UNCHANGED <<config, config_file, issued>> /\ net' = [net EXCEPT !.sent = {}]
       ELSE \E r \in AnyExchangeReply : Committed(Exchanged(Local, AuthToken(tokArg), r))
    /\ UNCHANGED <<now, loaded, credentials_file, error, suspended, httpVars, streamVars,
                   workerVars>>

\* HTTPClient.request(method, path) with require_auth=True, the whole call:
\* _ensure_authenticated, the send through the sync client, and on a 401 with
\* a cached credential authenticate() and the re-send
AddressRequest ==
    /\ \E r1 \in AnyExchangeReply, r2 \in AnyExchangeReply, status \in AnyRequestReply :
         LET e == Ensured(Local, r1)
             first == Sent(GetSyncClient(e.st), GetSyncClient(e.st).base_url[1])
             again == Exchanged(first, static_token, r2)
         IN
         IF e.raised THEN Committed(e.st)
         ELSE IF status = 401 /\ static_token # ""
              THEN IF Outcome(r2.status) = "ok"
                   THEN Committed(Sent(again, again.base_url[1]))
                   ELSE Committed(again)
              ELSE Committed(first)
    /\ UNCHANGED <<now, static_token, loaded, credentials_file, error, suspended, httpVars,
                   streamVars, workerVars>>

\* HTTPClient.stream_sse(path), up to the request of the stream:
\* _ensure_authenticated, the auth headers, and a new httpx.Client with
\* base_url=self.server_url
AddressStream ==
    /\ \E r \in AnyExchangeReply :
         LET e == Ensured(Local, r) IN
         IF e.raised THEN Committed(e.st)
         ELSE Committed(Sent(e.st, e.st.cfg.server_url))
    /\ UNCHANGED <<now, static_token, loaded, credentials_file, error, suspended, httpVars,
                   streamVars, workerVars>>

AddressNext ==
    \/ \E server_url \in {None} \cup {Some(u) : u \in Servers}, token \in {"", "st-alice"} :
          NewClient(server_url, token)
    \/ \E url \in Servers : AddressSetServerUrl(url)
    \/ \E tokArg \in {"", "st-alice"} : AddressAuthenticate(tokArg)
    \/ AddressRequest
    \/ AddressStream

AddressSpec == Init /\ [][AddressNext]_vars

\* C37: a bearer token is only ever sent to the server address whose
\* /auth/exchange issued it: whatever clients are constructed over the shared
\* session and whatever set_server_url, authenticate, request and stream_sse
\* calls are made, no request or stream carries a token issued by another
\* address than the one it is sent to
C37_BearerStaysWithIssuer ==
    \A p \in net.sent : net.issuer[p[2]] = p[1]

\* the sends of the sync client alone, while the session's address has not
\* been changed since that client was built
C37_SyncClientKeepsAddress ==
    [][AddressRequest /\ net.base_url # None /\ net.base_url' = net.base_url
         => \A p \in net'.sent : p[1] = net.base_url[1]]_vars

====
